---- MODULE Spec2Model ----
(***************************************************************************)
(* A model of anubis-solver-rs: the challenge model and solver of          *)
(* src/lib.rs (algorithm dispatch, the parallel proof-of-work search and   *)
(* its two atomics, the submission URL), and the reverse proxy of          *)
(* src/bin/proxy.rs (the per-host cookie-jar registry and the              *)
(* fetch / solve / wait / submit / verify / replay sequence of             *)
(* proxy_request and solve_and_retry), and the solve, wait and submission   *)
(* URL of the command-line solver of src/main.rs.                          *)
(*                                                                         *)
(* SpecPow is one call of the search, one step per atomic access or hash   *)
(* attempt of a worker.  SpecRun is one run of the orchestrator (of the    *)
(* proxy or of the command-line solver) against every upstream response,   *)
(* with the clock.  SpecProxy is MaxRequests concurrent proxy requests.     *)
(* SpecRun and SpecProxy see a search as the set of results it can return. *)
(*                                                                         *)
(* Strings that the code hashes, formats or encodes are sequences of       *)
(* bytes; Option values are sequences of length 0 (None) or 1 (Some).      *)
(***************************************************************************)
EXTENDS Integers, Naturals, Sequences, FiniteSets, TLC

(***************************************************************************)
(* Bounds of the model.                                                    *)
(***************************************************************************)
\* The nonces the model hashes lie in two windows of the u64 range: the
\* NonceMax + 1 least values, 0..NonceMax, where every search starts, and
\* the NonceMax + 1 greatest values, up to u64::MAX, where
\* nonce.checked_add(num_threads) overflows.
NonceMax == 7
\* rayon::current_num_threads() ranges over 1..MaxWorkers.
MaxWorkers == 2
\* The modulus of the progress callback test (lib.rs 319).
ProgressPeriod == 1024 * 16
\* A worker is followed through its first MaxReports invocations of the
\* progress callback, and outside the windows no further.
MaxReports == 2

None == <<>>
Some(v) == <<v>>
IsSome(o) == Len(o) = 1
Unwrap(o) == o[1]

SHA256_K ==
  <<
     <<17034, 12184>>, <<28983, 17553>>, <<46528, 64463>>, <<59829, 56229>>,
     <<14678, 49755>>, <<23025, 4593>>, <<37439, 33444>>, <<43804, 24277>>,
     <<55303, 43672>>, <<4739, 23297>>, <<9265, 34238>>, <<21772, 32195>>,
     <<29374, 23924>>, <<32990, 45566>>, <<39900, 1703>>, <<49563, 61812>>,
     <<58523, 27073>>, <<61374, 18310>>, <<4033, 40390>>, <<9228, 41420>>,
     <<11753, 11375>>, <<19060, 33962>>, <<23728, 43484>>, <<30457, 35034>>,
     <<38974, 20818>>, <<43057, 50797>>, <<45059, 10184>>, <<48985, 32711>>,
     <<50912, 3059>>, <<54695, 37191>>, <<1738, 25425>>, <<5161, 10599>>,
     <<10167, 2693>>, <<11803, 8504>>, <<19756, 28156>>, <<21304, 3347>>,
     <<25866, 29524>>, <<30314, 2747>>, <<33218, 51502>>, <<37490, 11397>>,
     <<41663, 59553>>, <<43034, 26187>>, <<49739, 35696>>, <<51052, 20899>>,
     <<53650, 59417>>, <<54937, 1572>>, <<62478, 13701>>, <<4202, 41072>>,
     <<6564, 49430>>, <<7735, 27656>>, <<10056, 30540>>, <<13488, 48309>>,
     <<14620, 3251>>, <<20184, 43594>>, <<23452, 51791>>, <<26670, 28659>>,
     <<29839, 33518>>, <<30885, 25455>>, <<33992, 30740>>, <<36039, 520>>,
     <<37054, 65530>>, <<42064, 27883>>, <<48889, 41975>>, <<50801, 30962>>
  >>

SHA256_H0 ==
  <<
     <<27145, 58983>>, <<47975, 44677>>, <<15470, 62322>>, <<42319, 62778>>,
     <<20750, 21119>>, <<39685, 26764>>, <<8067, 55723>>, <<23520, 52505>>
  >>
(***************************************************************************)
(* SHA-256 (sha2::Sha256), computed on sequences of bytes.  A 32-bit word  *)
(* is a pair <<hi, lo>> of 16-bit halves, so that no intermediate value    *)
(* leaves the range of the integers the checker evaluates.                 *)
(***************************************************************************)
Pow2(n) == 2 ^ n

\* Bitwise operations on 16-bit halves, a nibble at a time.
RECURSIVE XorBits(_, _, _)
XorBits(a, b, n) ==
  IF n = 0 THEN 0
  ELSE (((a % 2) + (b % 2)) % 2) + 2 * XorBits(a \div 2, b \div 2, n - 1)

RECURSIVE AndBits(_, _, _)
AndBits(a, b, n) ==
  IF n = 0 THEN 0
  ELSE ((a % 2) * (b % 2)) + 2 * AndBits(a \div 2, b \div 2, n - 1)

XorNibble == [a \in 0..15 |-> [b \in 0..15 |-> XorBits(a, b, 4)]]
AndNibble == [a \in 0..15 |-> [b \in 0..15 |-> AndBits(a, b, 4)]]

Xor16(a, b) ==
  XorNibble[a % 16][b % 16]
  + 16 * XorNibble[(a \div 16) % 16][(b \div 16) % 16]
  + 256 * XorNibble[(a \div 256) % 16][(b \div 256) % 16]
  + 4096 * XorNibble[a \div 4096][b \div 4096]

And16(a, b) ==
  AndNibble[a % 16][b % 16]
  + 16 * AndNibble[(a \div 16) % 16][(b \div 16) % 16]
  + 256 * AndNibble[(a \div 256) % 16][(b \div 256) % 16]
  + 4096 * AndNibble[a \div 4096][b \div 4096]

WXor(x, y) == <<Xor16(x[1], y[1]), Xor16(x[2], y[2])>>
WAnd(x, y) == <<And16(x[1], y[1]), And16(x[2], y[2])>>
WNot(x) == <<65535 - x[1], 65535 - x[2]>>

WAdd(x, y) ==
  LET lo == x[2] + y[2]
      hi == x[1] + y[1] + (lo \div 65536)
  IN  <<hi % 65536, lo % 65536>>

Rotr(x, n) ==
  LET s == IF n >= 16 THEN <<x[2], x[1]>> ELSE x
      m == n % 16
      p == Pow2(m)
      q == Pow2(16 - m)
  IN  IF m = 0 THEN s
      ELSE <<(s[1] \div p) + ((s[2] % p) * q), (s[2] \div p) + ((s[1] % p) * q)>>

Shr(x, n) ==
  LET p == Pow2(n)
      q == Pow2(16 - n)
  IN  <<x[1] \div p, (x[2] \div p) + ((x[1] % p) * q)>>

BigSigma0(x) == WXor(WXor(Rotr(x, 2), Rotr(x, 13)), Rotr(x, 22))
BigSigma1(x) == WXor(WXor(Rotr(x, 6), Rotr(x, 11)), Rotr(x, 25))
SmallSigma0(x) == WXor(WXor(Rotr(x, 7), Rotr(x, 18)), Shr(x, 3))
SmallSigma1(x) == WXor(WXor(Rotr(x, 17), Rotr(x, 19)), Shr(x, 10))
Ch(e, f, g) == WXor(WAnd(e, f), WAnd(WNot(e), g))
Maj(a, b, c) == WXor(WXor(WAnd(a, b), WAnd(a, c)), WAnd(b, c))

RECURSIVE Zeros(_)
Zeros(n) == IF n = 0 THEN <<>> ELSE <<0>> \o Zeros(n - 1)

\* The padded message: the bytes, 0x80, zeros up to 56 mod 64, and the length
\* in bits as a 64-bit big-endian integer.
Sha256Pad(msg) ==
  LET len == Len(msg)
      bits == len * 8
      zeros == (119 - (len % 64)) % 64
  IN  msg \o <<128>> \o Zeros(zeros) \o <<0, 0, 0, 0>>
        \o <<(bits \div 16777216) % 256, (bits \div 65536) % 256,
             (bits \div 256) % 256, bits % 256>>

BlockWord(bytes, base, i) ==
  <<(bytes[base + (4 * i) - 3] * 256) + bytes[base + (4 * i) - 2],
    (bytes[base + (4 * i) - 1] * 256) + bytes[base + (4 * i)]>>

RECURSIVE Schedule(_)
Schedule(w) ==
  IF Len(w) = 64 THEN w
  ELSE LET t == Len(w) + 1
       IN  Schedule(Append(w,
             WAdd(WAdd(SmallSigma1(w[t - 2]), w[t - 7]),
                  WAdd(SmallSigma0(w[t - 15]), w[t - 16]))))

\* One round on the working variables a..h (st.v), at round st.t.
Sha256Round(st, w) ==
  LET v == st.v
      t1 == WAdd(WAdd(WAdd(v[8], BigSigma1(v[5])), Ch(v[5], v[6], v[7])),
                 WAdd(SHA256_K[st.t], w[st.t]))
      t2 == WAdd(BigSigma0(v[1]), Maj(v[1], v[2], v[3]))
  IN  [t |-> st.t + 1,
       v |-> <<WAdd(t1, t2), v[1], v[2], v[3], WAdd(v[4], t1), v[5], v[6], v[7]>>]

RECURSIVE Sha256Rounds(_, _)
Sha256Rounds(st, w) ==
  IF st.t > 64 THEN st.v ELSE Sha256Rounds(Sha256Round(st, w), w)

Sha256Compress(h, bytes, base) ==
  LET w == Schedule([i \in 1..16 |-> BlockWord(bytes, base, i)])
      st == Sha256Rounds([t |-> 1, v |-> h], w)
  IN  [i \in 1..8 |-> WAdd(h[i], st[i])]

RECURSIVE Sha256Blocks(_, _, _)
Sha256Blocks(h, bytes, base) ==
  IF base >= Len(bytes) THEN h
  ELSE Sha256Blocks(Sha256Compress(h, bytes, base), bytes, base + 64)

\* The 32 bytes of the digest.
Sha256(msg) ==
  LET Byte(w, j) ==
        IF j = 0 THEN w[1] \div 256
        ELSE IF j = 1 THEN w[1] % 256
        ELSE IF j = 2 THEN w[2] \div 256
        ELSE w[2] % 256
      Bytes(h) == [i \in 1..32 |-> Byte(h[((i - 1) \div 4) + 1], (i - 1) % 4)]
  IN  Bytes(Sha256Blocks(SHA256_H0, Sha256Pad(msg), 0))

(***************************************************************************)
(* Formatting helpers of the solver: itoa::Buffer::format and hex::encode. *)
(***************************************************************************)
\* A u64 value x is held as the integer x when it lies in the low half of
\* the range and as x - 2^64 (its reading as an i64) when it lies in the
\* high half: -1 is u64::MAX = 18446744073709551615.
RECURSIVE ItoaNat(_)
ItoaNat(n) ==
  IF n < 10 THEN <<48 + n>> ELSE ItoaNat(n \div 10) \o <<48 + (n % 10)>>

\* The decimal digits of 2^64 = 18446744073709551616 above its last six.
TwoTo64High == <<49, 56, 52, 52, 54, 55, 52, 52, 48, 55, 51, 55, 48, 57>>
\* The last six decimal digits of 2^64.
TwoTo64Low == 551616

\* itoa::Buffer::format(u64): the decimal text, without sign or padding.
Itoa(n) ==
  IF n >= 0 THEN ItoaNat(n)
  ELSE TwoTo64High \o ItoaNat(TwoTo64Low + n)

\* 2^64 modulo a small number m, as ((2^16 mod m)^4) mod m.
TwoTo64Mod(m) ==
  LET r == 65536 % m IN (((r * r) % m) * ((r * r) % m)) % m

\* A u64 value modulo a small number m.
U64Mod(n, m) == IF n >= 0 THEN n % m ELSE ((n % m) + TwoTo64Mod(m)) % m

HexChar(v) == IF v < 10 THEN 48 + v ELSE 87 + v

HexEncode(bytes) ==
  [i \in 1..(2 * Len(bytes)) |->
     LET b == bytes[(i + 1) \div 2]
     IN  IF (i % 2) = 1 THEN HexChar(b \div 16) ELSE HexChar(b % 16)]

(***************************************************************************)
(* The challenge model (src/lib.rs).                                       *)
(***************************************************************************)
\* ".within.website/x/cmd/anubis/api/pass-challenge"
SUBMISSION_PATH ==
  <<46, 119, 105, 116, 104, 105, 110, 46, 119, 101, 98, 115, 105, 116, 101, 47,
    120, 47, 99, 109, 100, 47, 97, 110, 117, 98, 105, 115, 47, 97, 112, 105, 47,
    112, 97, 115, 115, 45, 99, 104, 97, 108, 108, 101, 110, 103, 101>>

\* A usize or u64 that the program computes with (the difficulty, a number
\* of milliseconds) is the sequence of its four 16-bit limbs, the least
\* significant first; usize has 64 bits on the targets the program is built
\* for.
Limb == 65536
\* The u64 of a number below 2^31.
U64(n) == <<n % Limb, n \div Limb, 0, 0>>
\* A u64 below 2^31 and its value as a number.
U64Fits(x) == x[3] = 0 /\ x[4] = 0 /\ x[2] < (Limb \div 2)
U64Value(x) == x[1] + (Limb * x[2])
\* usize::MAX
usize_MAX == <<Limb - 1, Limb - 1, Limb - 1, Limb - 1>>

\* The five limbs of the product of a u64 and a factor below 2^15.
MulLimbs(x, n) ==
  LET p1 == x[1] * n
      p2 == (x[2] * n) + (p1 \div Limb)
      p3 == (x[3] * n) + (p2 \div Limb)
      p4 == (x[4] * n) + (p3 \div Limb)
  IN  <<p1 % Limb, p2 % Limb, p3 % Limb, p4 % Limb, p4 \div Limb>>

\* The five limbs of the sum of a u64 and a number below 2^16.
AddLimbs(x, n) ==
  LET s1 == x[1] + n
      s2 == x[2] + (s1 \div Limb)
      s3 == x[3] + (s2 \div Limb)
      s4 == x[4] + (s3 \div Limb)
  IN  <<s1 % Limb, s2 % Limb, s3 % Limb, s4 % Limb, s4 \div Limb>>

\* serde_json parse_integer: the u64 of a string of decimal digits, None
\* when the number does not fit 64 bits.
RECURSIVE ParseU64(_, _)
ParseU64(digits, acc) ==
  IF digits = <<>> THEN Some(acc)
  ELSE LET tens == MulLimbs(acc, 10)
           sum == AddLimbs(SubSeq(tens, 1, 4), Head(digits) - 48)
       IN  IF tens[5] # 0 \/ sum[5] # 0 THEN None
           ELSE ParseU64(Tail(digits), SubSeq(sum, 1, 4))

\* The quotient and the remainder of a u64 divided by 10.
DivLimbs10(x) ==
  LET t3 == ((x[4] % 10) * Limb) + x[3]
      t2 == ((t3 % 10) * Limb) + x[2]
      t1 == ((t2 % 10) * Limb) + x[1]
  IN  [q |-> <<t1 \div 10, t2 \div 10, t3 \div 10, x[4] \div 10>>, r |-> t1 % 10]

\* The decimal digits of a u64, as a JSON document writes them.
RECURSIVE U64Itoa(_)
U64Itoa(x) ==
  IF DivLimbs10(x).q = U64(0) THEN <<48 + DivLimbs10(x).r>>
  ELSE U64Itoa(DivLimbs10(x).q) \o <<48 + DivLimbs10(x).r>>

\* a * b on u64: the product wraps modulo 2^64 when overflow checks are off
\* (release builds) and the thread panics when they are on (debug builds).
wrapping_mul(a, b) == SubSeq(MulLimbs(a, b), 1, 4)
mul_overflows(a, b) == MulLimbs(a, b)[5] # 0

\* AnubisChallenge { challenge: ChallengeData, rules: AnubisChallengeRules }
AnubisChallenge(id, random_data, difficulty, alg) ==
  [challenge |-> [id |-> id, random_data |-> random_data],
   rules |-> [difficulty |-> difficulty, algorithm |-> alg]]

\* A difficulty check that compares whole bytes only: an odd difficulty loses
\* its last nibble.
check_difficulty_bytes(hash, difficulty) ==
  /\ U64Fits(difficulty)
  /\ Len(hash) >= U64Value(difficulty) \div 2
  /\ \A i \in 1..(U64Value(difficulty) \div 2) : hash[i] = 0

\* Check if hash has the required leading zero nibbles.  A difficulty of
\* 2^31 or more has more full bytes than any hash the program makes.
check_difficulty_fast(hash, difficulty) ==
  IF ~U64Fits(difficulty) THEN FALSE
  ELSE
  LET full_bytes == U64Value(difficulty) \div 2
  IN  IF Len(hash) < full_bytes THEN FALSE
      ELSE IF \E i \in 1..full_bytes : hash[i] # 0 THEN FALSE
      ELSE IF (U64Value(difficulty) % 2) # 0
           THEN IF Len(hash) <= full_bytes THEN FALSE
                ELSE IF (hash[full_bytes + 1] \div 16) # 0 THEN FALSE
                ELSE TRUE
      ELSE TRUE

\* The effective algorithm, defaulting to "fast" when the field is empty.
algorithm(ch) ==
  IF ch.rules.algorithm = "" THEN "fast" ELSE ch.rules.algorithm

\* The least difficulty whose preact product overflows:
\* 230584300921369396 * 80 = 2^64 + 64.
OverflowDifficulty == <<13108, 13107, 13107, 819>>
\* The least difficulty whose metarefresh product overflows:
\* 23058430092136940 * 800 = 2^64 + 384.
OverflowDifficulty800 == <<20972, 7864, 60293, 81>>

\* The minimum wait of the time-based challenges, as a build without
\* overflow checks computes it: the milliseconds of the Duration.
min_wait(ch) ==
  IF algorithm(ch) = "preact" THEN Some(wrapping_mul(ch.rules.difficulty, 80))
  ELSE IF algorithm(ch) = "metarefresh"
       THEN Some(wrapping_mul(ch.rules.difficulty, 800))
  ELSE None

\* min_wait panics: the build checks overflow and the product overflows.
min_wait_overflows(ch) ==
  \/ algorithm(ch) = "preact" /\ mul_overflows(ch.rules.difficulty, 80)
  \/ algorithm(ch) = "metarefresh" /\ mul_overflows(ch.rules.difficulty, 800)

\* The bytes of the strings the model names: schemes, hosts, path segments,
\* challenge ids and the values of Set-Cookie headers.
Utf8(s) ==
  CASE s = "https" -> <<104, 116, 116, 112, 115>>
    [] s = "h1" -> <<104, 49>>
    [] s = "h2" -> <<104, 50>>
    [] s = "p" -> <<112>>
    [] s = "q=1" -> <<113, 61, 49>>
    [] s = "" -> <<>>
    [] s = "id0" -> <<105, 100, 48>>
    [] s = "id1" -> <<105, 100, 49>>
    [] s = "id2" -> <<105, 100, 50>>
    [] s = "id3" -> <<105, 100, 51>>
    [] s = "id4" -> <<105, 100, 52>>
    [] s = "id5" -> <<105, 100, 53>>
    [] s = "visit=1" ->
         <<118, 105, 115, 105, 116, 61, 49>>
    [] s = "test=1; Path=/" ->
         <<116, 101, 115, 116, 61, 49, 59, 32, 80, 97, 116, 104, 61, 47>>
    [] s = "a=1; Path=/" ->
         <<97, 61, 49, 59, 32, 80, 97, 116, 104, 61, 47>>
    [] s = "b=2" ->
         <<98, 61, 50>>
    [] s = "auth=t1; Path=/; HttpOnly" ->
         <<97, 117, 116, 104, 61, 116, 49, 59, 32, 80, 97, 116, 104, 61, 47, 59, 32, 72, 116, 116, 112, 79, 110, 108, 121>>
    [] s = "auth=t2; Max-Age=1; Path=/; Secure" ->
         <<97, 117, 116, 104, 61, 116, 50, 59, 32, 77, 97, 120, 45, 65, 103, 101, 61, 49, 59, 32, 80, 97, 116, 104, 61, 47, 59, 32, 83, 101, 99, 117, 114, 101>>
    [] s = "auth=t3" ->
         <<97, 117, 116, 104, 61, 116, 51>>
    [] s = "auth=; Max-Age=0; Path=/" ->
         <<97, 117, 116, 104, 61, 59, 32, 77, 97, 120, 45, 65, 103, 101, 61, 48, 59, 32, 80, 97, 116, 104, 61, 47>>
    [] s = "sid=s1; Domain=.H1; path=/p" ->
         <<115, 105, 100, 61, 115, 49, 59, 32, 68, 111, 109, 97, 105, 110, 61, 46, 72, 49, 59, 32, 112, 97, 116, 104, 61, 47, 112>>
    [] s = "sid=s2; Domain=h9; Path=/" ->
         <<115, 105, 100, 61, 115, 50, 59, 32, 68, 111, 109, 97, 105, 110, 61, 104, 57, 59, 32, 80, 97, 116, 104, 61, 47>>
    [] s = "novalue" ->
         <<110, 111, 118, 97, 108, 117, 101>>

\* "&id=": the format string of id_param.
AmpId == <<38, 105, 100, 61>>

\* Builds the id query parameter if present: "&id=<id>" or the empty string.
id_param(ch) ==
  IF IsSome(ch.challenge.id) THEN AmpId \o Utf8(Unwrap(ch.challenge.id)) ELSE <<>>

(***************************************************************************)
(* Inputs of the model: the payloads (randomData) the upstream hands out.  *)
(* "4fcd08a4" meets difficulty 2 at the nonces 3, 4, 5 and 6 and           *)
(* difficulty 1 at these and at 7; "28ef97cf" meets both at 2, 3, 4 and 5. *)
(* With up to four workers every worker meets a valid nonce of its stride  *)
(* among its first attempts.                                               *)
(***************************************************************************)
\* "4fcd08a4"
Payload1 == <<52, 102, 99, 100, 48, 56, 97, 52>>
\* "28ef97cf"
Payload2 == <<50, 56, 101, 102, 57, 55, 99, 102>>
Payloads == {Payload1, Payload2}

\* The two windows of the u64 range in which the model hashes.
LowNonces == 0..NonceMax
HighNonces == (-(NonceMax + 1))..(-1)
\* The nonces outside the windows at which it hashes: those at which the
\* test of the progress callback holds for one of the workers.
DueNonces ==
  {(q * ProgressPeriod) + k :
     q \in 1..(MaxWorkers * MaxReports), k \in 0..(MaxWorkers - 1)}

\* The bytes a worker hashes for a nonce: the payload, then the decimal nonce.
PowInput(data, nonce) == data \o Itoa(nonce)

\* SHA-256 of payload || decimal(nonce), computed once per input.
DigestTable ==
  [p \in Payloads |->
     [n \in LowNonces \cup HighNonces \cup DueNonces |->
        Sha256(PowInput(p, n))]]

PowDigest(data, nonce) == DigestTable[data][nonce]

\* SHA-256 of the payload alone (preact), computed once per payload.
PayloadDigestTable == [p \in Payloads |-> Sha256(p)]

\* Preact: SHA256(randomData); no nonce.
solve_preact_challenge(ch) ==
  [hash |-> HexEncode(PayloadDigestTable[ch.challenge.random_data]),
   data |-> ch.challenge.random_data,
   difficulty |-> ch.rules.difficulty,
   nonce |-> None]

\* Metarefresh: echo raw randomData; no nonce.
solve_metarefresh_challenge(ch) ==
  [hash |-> ch.challenge.random_data,
   data |-> ch.challenge.random_data,
   difficulty |-> ch.rules.difficulty,
   nonce |-> None]

\* The SolverResult a worker (or the caller's recompute path) builds for a nonce.
NativeResult(ch, nonce) ==
  [hash |-> HexEncode(PowDigest(ch.challenge.random_data, nonce)),
   data |-> ch.challenge.random_data,
   difficulty |-> ch.rules.difficulty,
   nonce |-> Some(nonce)]

Ok(v) == [ok |-> TRUE, val |-> v]
Err(e) == [ok |-> FALSE, err |-> e]

(***************************************************************************)
(* solve_challenge_native: the parallel proof-of-work search.              *)
(*                                                                         *)
(* Each call owns a stop flag (found_solution) and a winning-nonce slot    *)
(* (result_nonce).  The parallel iterator has one item per thread_id in    *)
(* 0..num_threads-1; an item runs the worker closure, one atomic access    *)
(* or one hash attempt per step.  find_any keeps the first Some it is      *)
(* handed, skips the items that have not started once it holds one, and    *)
(* returns to the caller when every item has finished.                     *)
(***************************************************************************)
\* Calls of solve_challenge_native that may be in progress at the same time.
MaxCalls == 2

Calls == 1..MaxCalls
Workers == 0..(MaxWorkers - 1)

VARIABLES
  num_threads,     \* rayon::current_num_threads()
  pow_ch,          \* call -> Option<AnubisChallenge>: the call's argument
  progress_callback, \* call -> whether the call was given Some(callback)
  found_solution,  \* call -> the AtomicBool
  result_nonce,    \* call -> the AtomicU64
  wpc,             \* call -> thread_id -> position of the worker closure
  wnonce,          \* call -> thread_id -> the worker's local nonce
  wret,            \* call -> thread_id -> what the closure returned
  found_any,       \* call -> Option<SolverResult> held by find_any
  pow_ret,         \* call -> Option<Result<SolverResult, String>>
  swap_won,        \* call -> the workers whose swap returned false (history)
  slot_writes,     \* call -> number of stores to result_nonce (history)
  whist,           \* call -> thread_id -> what the worker has done (history)
  wseen,           \* call -> thread_id -> what the pool thread that runs
                   \* the item knows of each call
  idle             \* what a thread knows of each call -> the number of pool
                   \* threads that run no item and know just that

powvars ==
  <<num_threads, pow_ch, progress_callback, found_solution, result_nonce, wpc,
    wnonce, wret, found_any, pow_ret, swap_won, slot_writes, whist, wseen,
    idle>>

\* The history of a worker: how often it has read the stop flag; the nonces
\* it has hashed, in order; how many of these hash attempts it made with
\* the stop flag already set; whether the flag was set when it started; and
\* how its closure ended ("overflow", "flag", "lost", "won", or "skipped"
\* for an item that never ran); the nonces it has passed to the progress
\* callback, in order; how often it has read its flag while the flag of
\* another call was set; and whether it has crossed from the low window to
\* the high one.
NewHistory ==
  [loads |-> 0, attempts |-> <<>>, late |-> 0, started_late |-> FALSE,
   exit |-> "none", callbacks |-> <<>>, foreign |-> 0, leapt |-> FALSE]

ThreadIds == 0..(num_threads - 1)

\* What a pool thread knows of a call: nothing; that the stop flag of the
\* call is set ("flag": a load of its own returned true or it made the
\* swap); or that find_any holds a result of the call ("found": it handed
\* find_any the result, or its load of the flag of find_any returned true).
\* The threads of the rayon pool differ in nothing else.
ThreadKinds == [Calls -> {"none", "flag", "found"}]

NoKnowledge == [c \in Calls |-> "none"]

\* The thread has seen the stop flag of call c set.
SeenFlag(seen, c) == [seen EXCEPT ![c] = IF @ = "found" THEN @ ELSE "flag"]

\* The thread has seen the flag of find_any of call c set.
SeenFound(seen, c) == [seen EXCEPT ![c] = "found"]

\* The kinds of thread an item may start on: those of a thread that runs no
\* item.
StartThreads == {seen \in ThreadKinds : idle[seen] > 0}

\* The pool thread that runs item k knows seen: it goes on with the item or,
\* the item done, runs no item.
ThreadAfter(c, k, seen) ==
  IF wpc'[c][k] = "done"
  THEN /\ idle' = [idle EXCEPT ![seen] = @ + 1]
       /\ wseen' = [wseen EXCEPT ![c][k] = NoKnowledge]
  ELSE /\ idle' = idle
       /\ wseen' = [wseen EXCEPT ![c][k] = seen]

PowInit ==
  /\ num_threads \in 1..MaxWorkers
  /\ pow_ch = [c \in Calls |-> None]
  /\ progress_callback = [c \in Calls |-> FALSE]
  /\ found_solution = [c \in Calls |-> FALSE]
  /\ result_nonce = [c \in Calls |-> 0]
  /\ wpc = [c \in Calls |-> [k \in Workers |-> "off"]]
  /\ wnonce = [c \in Calls |-> [k \in Workers |-> 0]]
  /\ wret = [c \in Calls |-> [k \in Workers |-> None]]
  /\ found_any = [c \in Calls |-> None]
  /\ pow_ret = [c \in Calls |-> None]
  /\ swap_won = [c \in Calls |-> {}]
  /\ slot_writes = [c \in Calls |-> 0]
  /\ whist = [c \in Calls |-> [k \in Workers |-> NewHistory]]
  /\ wseen = [c \in Calls |-> [k \in Workers |-> NoKnowledge]]
  /\ idle = [seen \in ThreadKinds |->
              IF seen = NoKnowledge THEN num_threads ELSE 0]

\* lib.rs 276-287: the call creates its atomics and the parallel iterator.
NativeBegin(c, ch, cb) ==
  /\ pow_ch[c] = None
  /\ pow_ch' = [pow_ch EXCEPT ![c] = Some(ch)]
  /\ progress_callback' = [progress_callback EXCEPT ![c] = cb]
  /\ found_solution' = [found_solution EXCEPT ![c] = FALSE]
  /\ result_nonce' = [result_nonce EXCEPT ![c] = 0]
  /\ wpc' = [wpc EXCEPT ![c] =
               [k \in Workers |-> IF k \in ThreadIds THEN "idle" ELSE "off"]]
  /\ UNCHANGED <<num_threads, wnonce, wret, found_any, pow_ret, swap_won,
                 slot_writes, whist,
                 wseen, idle>>

\* An item that starts one stride after its thread_id.
StartWorkerSkipsFirst(c, k) ==
  /\ wpc[c][k] = "idle"
  /\ \E seen \in StartThreads :
       /\ seen[c] # "found"
       /\ idle' = [idle EXCEPT ![seen] = @ - 1]
       /\ wseen' = [wseen EXCEPT ![c][k] = seen]
  /\ wpc' = [wpc EXCEPT ![c][k] = "load"]
  /\ wnonce' = [wnonce EXCEPT ![c][k] = k + num_threads]
  /\ whist' = [whist EXCEPT ![c][k].started_late = found_solution[c]]
  /\ UNCHANGED <<num_threads, pow_ch, progress_callback, found_solution,
                 result_nonce, wret, found_any, pow_ret, swap_won, slot_writes>>

\* lib.rs 288: an item starts on a free pool thread; nonce = thread_id.
\* The thread has read the flag of find_any (a relaxed load) as unset before
\* it runs the closure: the flag was unset then, or the thread has not seen
\* it set and nothing orders its load after the store.
StartWorker(c, k) ==
  /\ wpc[c][k] = "idle"
  /\ \E seen \in StartThreads :
       /\ seen[c] # "found"
       /\ idle' = [idle EXCEPT ![seen] = @ - 1]
       /\ wseen' = [wseen EXCEPT ![c][k] = seen]
  /\ wpc' = [wpc EXCEPT ![c][k] = "load"]
  /\ wnonce' = [wnonce EXCEPT ![c][k] = k]
  /\ whist' = [whist EXCEPT ![c][k].started_late = found_solution[c]]
  /\ UNCHANGED <<num_threads, pow_ch, progress_callback, found_solution, result_nonce, wret,
                 found_any, pow_ret, swap_won, slot_writes>>

\* lib.rs 333: find_any already holds a result and a free pool thread reads
\* the flag of find_any as set: the item is never run.
SkipWorker(c, k) ==
  /\ wpc[c][k] = "idle"
  /\ found_any[c] # None
  /\ \E seen \in StartThreads :
       idle' = IF seen[c] = "found" THEN idle
               ELSE [idle EXCEPT ![seen] = @ - 1, ![SeenFound(seen, c)] = @ + 1]
  /\ wpc' = [wpc EXCEPT ![c][k] = "done"]
  /\ whist' = [whist EXCEPT ![c][k].exit = "skipped"]
  /\ UNCHANGED <<num_threads, pow_ch, progress_callback, found_solution, result_nonce, wnonce,
                 wret, found_any, pow_ret, swap_won, slot_writes,
                 wseen>>

\* lib.rs 319: nonce % (1024 * 16) == thread_id as u64.
progress_due(nonce, thread_id) == U64Mod(nonce, ProgressPeriod) = thread_id

\* lib.rs 131-150 on the 32 bytes of a digest: a difficulty above 64 asks
\* for more nibbles than a digest has, and no hash meets it.
Unsatisfiable(difficulty) ==
  ~U64Fits(difficulty) \/ U64Value(difficulty) > 64

\* An iteration of the loop of a worker is taken step by step when its
\* nonce lies in one of the two windows, and when it is an iteration outside
\* the windows at which the test of the progress callback holds and the
\* call has a callback.  The latter are taken while the worker has invoked
\* the callback fewer than MaxReports times: the worker is not followed
\* beyond them.
InWindow(nonce) == nonce \in LowNonces \cup HighNonces

Reports(c, k) == progress_callback[c] /\ progress_due(wnonce[c][k], k)

Followed(c, k) ==
  \/ InWindow(wnonce[c][k])
  \/ Reports(c, k) /\ Len(whist[c][k].callbacks) < MaxReports

\* load(Ordering::Relaxed) of the stop flag of call c on a pool thread that
\* knows seen: the value the flag holds, or, on a thread that has neither
\* read the flag set nor swapped it, the false the flag held before: nothing
\* orders the load of such a thread after the swap of another thread.
RelaxedLoad(c, seen) ==
  {found_solution[c]} \cup (IF seen[c] = "none" THEN {FALSE} ELSE {})

\* A worker that reads one stop flag shared by all the calls.
LoadFlagShared(c, k) ==
  /\ wpc[c][k] = "load"
  /\ \E flag \in UNION {RelaxedLoad(c2, wseen[c][k]) : c2 \in Calls} :
       /\ flag \/ Followed(c, k)
       /\ wpc' = [wpc EXCEPT ![c][k] = IF flag THEN "done" ELSE "hash"]
       /\ ThreadAfter(c, k, wseen[c][k])
       /\ whist' = [whist EXCEPT ![c][k] =
                      [@ EXCEPT !.loads = @ + 1,
                                !.exit = IF flag THEN "flag" ELSE @]]
  /\ UNCHANGED <<num_threads, pow_ch, progress_callback, found_solution,
                 result_nonce, wnonce, wret, found_any, pow_ret, swap_won,
                 slot_writes>>

\* lib.rs 298: while !local_found.load(Relaxed); on exit the closure returns
\* None.  An iteration that goes on to hash is taken when it is followed.
LoadFlag(c, k) ==
  /\ wpc[c][k] = "load"
  /\ \E flag \in RelaxedLoad(c, wseen[c][k]) :
       /\ flag \/ Followed(c, k)
       /\ wpc' = [wpc EXCEPT ![c][k] = IF flag THEN "done" ELSE "hash"]
       /\ ThreadAfter(c, k, IF flag THEN SeenFlag(wseen[c][k], c)
                             ELSE wseen[c][k])
       /\ whist' = [whist EXCEPT ![c][k] =
                      [@ EXCEPT !.loads = @ + 1,
                                !.exit = IF flag THEN "flag" ELSE @,
                                !.foreign =
                                   IF \E c2 \in Calls \ {c} : found_solution[c2]
                                   THEN @ + 1 ELSE @]]
  /\ UNCHANGED <<num_threads, pow_ch, progress_callback, found_solution, result_nonce, wnonce,
                 wret, found_any, pow_ret, swap_won, slot_writes>>

\* An increment that stays at the largest value instead of failing.
checked_add_saturating(nonce, n) ==
  Some(IF nonce < 0 /\ nonce + n >= 0 THEN -1 ELSE nonce + n)

\* An increment that advances by one whatever the stride.
checked_add_unit(nonce, n) ==
  IF nonce < 0 /\ nonce + 1 >= 0 THEN None ELSE Some(nonce + 1)

\* lib.rs 326-329: nonce.checked_add(num_threads as u64); None when the
\* sum passes u64::MAX.
checked_add(nonce, n) ==
  IF nonce < 0 /\ nonce + n >= 0 THEN None ELSE Some(nonce + n)

\* The first nonce of the high window that lies on the stride of a nonce.
HighEntry(nonce, w) ==
  CHOOSE n \in HighNonces :
    /\ U64Mod(n, w) = U64Mod(nonce, w)
    /\ \A m \in HighNonces : U64Mod(m, w) = U64Mod(nonce, w) => n <= m

\* The nonces of the stride of a nonce, from the nonce on, at which the test
\* of the progress callback holds: they have the form q * ProgressPeriod +
\* thread_id, and w + 1 consecutive values of q hold the next of them.
DueAhead(nonce, thread_id, w) ==
  {n \in {(((nonce \div ProgressPeriod) + q) * ProgressPeriod) + thread_id :
            q \in 0..w} :
     n >= nonce /\ ((n - nonce) % w) = 0 /\ progress_due(n, thread_id)}

\* The next iteration of a worker that differs from load, hash, failed
\* check, no callback, checked_add: with a callback the next one at which
\* the test of the callback holds, without one the first of the high
\* window.
LeapTarget(c, k) ==
  LET due == DueAhead(wnonce[c][k], k, num_threads)
  IN  IF progress_callback[c] /\ due # {}
      THEN CHOOSE n \in due : \A m \in due : n <= m
      ELSE HighEntry(wnonce[c][k], num_threads)

\* lib.rs 297-329, repeated: the iterations of a worker from its nonce up
\* to LeapTarget.  Each of them loads the stop flag, hashes, fails the
\* difficulty check, does not invoke the callback and adds num_threads.  The
\* model takes them in one step, and only where it knows how they end: the
\* difficulty is one that no hash meets, so no worker of the call ever sets
\* the flag.
Leap(c, k) ==
  /\ wpc[c][k] = "load"
  /\ ~InWindow(wnonce[c][k])
  /\ ~Reports(c, k)
  /\ Unsatisfiable(Unwrap(pow_ch[c]).rules.difficulty)
  /\ ~found_solution[c]
  /\ wnonce' = [wnonce EXCEPT ![c][k] = LeapTarget(c, k)]
  /\ whist' = [whist EXCEPT ![c][k].leapt = (LeapTarget(c, k) < 0)]
  /\ UNCHANGED <<num_threads, pow_ch, progress_callback, found_solution,
                 result_nonce, wpc, wret, found_any, pow_ret, swap_won,
                 slot_writes,
                 wseen, idle>>

\* A worker that raises the stop flag when its stride is exhausted.
HashAttemptStop(c, k) ==
  /\ wpc[c][k] = "hash"
  /\ LET ch == Unwrap(pow_ch[c])
         hash_result == PowDigest(ch.challenge.random_data, wnonce[c][k])
         next_nonce == checked_add(wnonce[c][k], num_threads)
     IN  IF check_difficulty_fast(hash_result, ch.rules.difficulty)
         THEN /\ wpc' = [wpc EXCEPT ![c][k] = "swap"]
              /\ wnonce' = wnonce
         ELSE IF IsSome(next_nonce)
         THEN /\ wpc' = [wpc EXCEPT ![c][k] = "load"]
              /\ wnonce' = [wnonce EXCEPT ![c][k] = Unwrap(next_nonce)]
         ELSE /\ wpc' = [wpc EXCEPT ![c][k] = "done"]
              /\ wnonce' = wnonce
  /\ found_solution' =
       [found_solution EXCEPT ![c] =
          IF wpc'[c][k] = "done" THEN TRUE ELSE @]
  /\ whist' = [whist EXCEPT ![c][k] =
                 [@ EXCEPT !.attempts = Append(@, wnonce[c][k]),
                           !.late = IF found_solution[c] THEN @ + 1 ELSE @,
                           !.exit = IF wpc'[c][k] = "done" THEN "overflow" ELSE @]]
  /\ ThreadAfter(c, k, wseen[c][k])
  /\ UNCHANGED <<num_threads, pow_ch, progress_callback, result_nonce, wret,
                 found_any, pow_ret, swap_won, slot_writes>>

\* lib.rs 299-306 and 326-331: one hash attempt, the difficulty check and,
\* when the check fails, the step to the next nonce of the stride.
HashAttempt(c, k) ==
  /\ wpc[c][k] = "hash"
  /\ LET ch == Unwrap(pow_ch[c])
         hash_result == PowDigest(ch.challenge.random_data, wnonce[c][k])
         next_nonce == checked_add(wnonce[c][k], num_threads)
         valid == check_difficulty_fast(hash_result, ch.rules.difficulty)
     IN  /\ IF valid
            THEN /\ wpc' = [wpc EXCEPT ![c][k] = "swap"]
                 /\ wnonce' = wnonce
            ELSE IF IsSome(next_nonce)
            THEN /\ wpc' = [wpc EXCEPT ![c][k] = "load"]
                 /\ wnonce' = [wnonce EXCEPT ![c][k] = Unwrap(next_nonce)]
            ELSE /\ wpc' = [wpc EXCEPT ![c][k] = "done"]
                 /\ wnonce' = wnonce
         /\ whist' = [whist EXCEPT ![c][k] =
               [@ EXCEPT !.attempts = Append(@, wnonce[c][k]),
                         !.late = IF found_solution[c] THEN @ + 1 ELSE @,
                         !.exit = IF wpc'[c][k] = "done" THEN "overflow" ELSE @,
                         !.callbacks =
                            IF ~valid /\ progress_due(wnonce[c][k], k)
                                      /\ progress_callback[c]
                            THEN Append(@, wnonce[c][k]) ELSE @]]
  /\ ThreadAfter(c, k, wseen[c][k])
  /\ UNCHANGED <<num_threads, pow_ch, progress_callback, found_solution, result_nonce, wret,
                 found_any, pow_ret, swap_won, slot_writes>>

\* A worker that sets the flag with a plain store and goes on whatever the
\* flag held before.
SwapFlagStore(c, k) ==
  /\ wpc[c][k] = "swap"
  /\ found_solution' = [found_solution EXCEPT ![c] = TRUE]
  /\ wpc' = [wpc EXCEPT ![c][k] = "store"]
  /\ swap_won' = [swap_won EXCEPT ![c] = @ \cup {k}]
  /\ ThreadAfter(c, k, SeenFlag(wseen[c][k], c))
  /\ UNCHANGED <<num_threads, pow_ch, progress_callback, result_nonce, wnonce, wret, found_any,
                 pow_ret, slot_writes, whist>>

\* lib.rs 307 and 315-317: local_found.swap(true, SeqCst).
SwapFlag(c, k) ==
  /\ wpc[c][k] = "swap"
  /\ found_solution' = [found_solution EXCEPT ![c] = TRUE]
  /\ IF ~found_solution[c]
     THEN /\ wpc' = [wpc EXCEPT ![c][k] = "store"]
          /\ swap_won' = [swap_won EXCEPT ![c] = @ \cup {k}]
          /\ whist' = whist
     ELSE /\ wpc' = [wpc EXCEPT ![c][k] = "done"]
          /\ swap_won' = swap_won
          /\ whist' = [whist EXCEPT ![c][k].exit = "lost"]
  /\ ThreadAfter(c, k, SeenFlag(wseen[c][k], c))
  /\ UNCHANGED <<num_threads, pow_ch, progress_callback, result_nonce, wnonce, wret, found_any,
                 pow_ret, slot_writes>>

\* A winner that returns its result without writing the slot.
StoreNonceSkipped(c, k) ==
  /\ wpc[c][k] = "store"
  /\ wpc' = [wpc EXCEPT ![c][k] = "ret"]
  /\ UNCHANGED <<num_threads, pow_ch, progress_callback, found_solution, result_nonce, wnonce,
                 wret, found_any, pow_ret, swap_won, slot_writes, whist,
                 wseen, idle>>

\* lib.rs 308: result_nonce.store(nonce, Relaxed).
StoreNonce(c, k) ==
  /\ wpc[c][k] = "store"
  /\ result_nonce' = [result_nonce EXCEPT ![c] = wnonce[c][k]]
  /\ slot_writes' = [slot_writes EXCEPT ![c] = @ + 1]
  /\ wpc' = [wpc EXCEPT ![c][k] = "ret"]
  /\ UNCHANGED <<num_threads, pow_ch, progress_callback, found_solution, wnonce, wret, found_any,
                 pow_ret, swap_won, whist,
                 wseen, idle>>

\* lib.rs 309-314 and 333: the closure returns Some(SolverResult) to
\* find_any, which keeps it and sets its flag on the thread of the item.
ReturnSome(c, k) ==
  /\ wpc[c][k] = "ret"
  /\ LET res == NativeResult(Unwrap(pow_ch[c]), wnonce[c][k])
     IN  /\ wret' = [wret EXCEPT ![c][k] = Some(res)]
         /\ found_any' = [found_any EXCEPT ![c] =
                            IF @ = None THEN Some(res) ELSE @]
  /\ wpc' = [wpc EXCEPT ![c][k] = "done"]
  /\ whist' = [whist EXCEPT ![c][k].exit = "won"]
  /\ ThreadAfter(c, k, SeenFound(wseen[c][k], c))
  /\ UNCHANGED <<num_threads, pow_ch, progress_callback, found_solution, result_nonce, wnonce,
                 pow_ret, swap_won, slot_writes>>

\* lib.rs 336-361: the caller's match on what find_any returned.
NativeReturn(c) ==
  IF IsSome(found_any[c]) THEN Ok(Unwrap(found_any[c]))
  ELSE IF found_solution[c]
       THEN Ok(NativeResult(Unwrap(pow_ch[c]), result_nonce[c]))
  ELSE Err("Solver finished without finding a solution.")

NativeEnd(c) ==
  /\ IsSome(pow_ch[c])
  /\ pow_ret[c] = None
  /\ \A k \in ThreadIds : wpc[c][k] = "done"
  /\ pow_ret' = [pow_ret EXCEPT ![c] = Some(NativeReturn(c))]
  /\ UNCHANGED <<num_threads, pow_ch, progress_callback, found_solution, result_nonce, wpc,
                 wnonce, wret, found_any, swap_won, slot_writes, whist,
                 wseen, idle>>

\* The difficulties the search is run at: 0 (every nonce is valid), 1 and
\* 2, and 65 and 66 (more nibbles than a digest has).
Difficulties == {U64(d) : d \in {0, 1, 2, 65, 66}}

(***************************************************************************)
(* What one call of the search can return: some worker k reaches the first *)
(* valid nonce of its stride k, k+W, k+2W, ... and wins the swap; when no  *)
(* stride holds a valid nonce every worker overflows and the call fails.   *)
(* solve_and_retry calls the search synchronously and sees only this.      *)
(***************************************************************************)
\* The nonces of the low window on the stride of worker k.
StrideNonces(k, w) == {n \in LowNonces : n >= k /\ ((n - k) % w) = 0}

ValidNonces(ch, k, w) ==
  {n \in StrideNonces(k, w) :
     check_difficulty_fast(PowDigest(ch.challenge.random_data, n),
                           ch.rules.difficulty)}

Min(s) == CHOOSE n \in s : \A m \in s : n <= m

\* The challenges of the searches that are run step by step: both payloads
\* at the difficulties some hash meets, and one payload at each of the two
\* that none does (lib.rs 141-143 for the odd one, 132-134 for the even one).
PowInputs ==
  {AnubisChallenge(None, p, U64(d), "fast") : p \in Payloads, d \in {0, 1, 2}}
    \cup {AnubisChallenge(None, Payload1, U64(65), "fast"),
          AnubisChallenge(None, Payload2, U64(66), "fast")}

\* The results of a call: a worker wins with the first valid nonce of its
\* stride; at a difficulty that no hash meets every worker runs to the
\* overflow and the call fails.  For the payloads and the difficulties of
\* the model the first valid nonce of every stride lies in the low window.
solve_challenge_native(ch, w) ==
  IF Unsatisfiable(ch.rules.difficulty)
  THEN {Err("Solver finished without finding a solution.")}
  ELSE {Ok(NativeResult(ch, Min(ValidNonces(ch, k, w)))) : k \in 0..(w - 1)}

\* A dispatch that knows only the names it lists: an algorithm it does not
\* recognise is answered like metarefresh, without a search.
solve_challenge_listed(ch, w) ==
  IF algorithm(ch) = "preact" THEN {Ok(solve_preact_challenge(ch))}
  ELSE IF algorithm(ch) = "fast" \/ algorithm(ch) = "slow"
       THEN solve_challenge_native(ch, w)
  ELSE {Ok(solve_metarefresh_challenge(ch))}

\* A dispatch without the metarefresh arm: metarefresh goes to the search.
solve_challenge_no_metarefresh(ch, w) ==
  IF algorithm(ch) = "preact" THEN {Ok(solve_preact_challenge(ch))}
  ELSE solve_challenge_native(ch, w)

\* Solve the challenge based on its algorithm type: the set of results the
\* call can return with w pool threads.
solve_challenge(ch, w) ==
  IF algorithm(ch) = "preact" THEN {Ok(solve_preact_challenge(ch))}
  ELSE IF algorithm(ch) = "metarefresh" THEN {Ok(solve_metarefresh_challenge(ch))}
  ELSE solve_challenge_native(ch, w)

(***************************************************************************)
(* Extraction (parse_challenge_from_html).  An HTML body is what the       *)
(* parser sees of it: whether the text contains "anubis_challenge", the    *)
(* text of the #anubis_challenge element if there is one, and the text of  *)
(* the #anubis_version element if there is one.  An element text is empty, *)
(* the literal null, a JSON document, or one of the texts below that       *)
(* serde_json rejects as it reads them.                                    *)
(***************************************************************************)
Body(marker, elem, version) ==
  [marker |-> marker, elem |-> elem, version |-> version]

\* An element text: the empty text; a text whose first character begins no
\* JSON value, such as <html>; the text of an opening brace alone; the text
\* of a JSON value; and the text of a JSON value followed by characters
\* that are not white space.
TextEmpty == [kind |-> "empty", doc |-> <<>>]
TextGarbage == [kind |-> "garbage", doc |-> <<>>]
TextTruncated == [kind |-> "truncated", doc |-> <<>>]
TextJson(doc) == [kind |-> "json", doc |-> doc]
TextTrailing(doc) == [kind |-> "trailing", doc |-> doc]

\* The JSON values of the model: null, true and false, strings, integer
\* literals (the characters of the literal: an optional minus sign and the
\* digits, without leading zeros), arrays (the elements in the order of the
\* text) and objects (the members in the order of the text, each a
\* <<key, value>> pair).
JsonNull == [t |-> "null"]
JsonBool(b) == [t |-> "bool", b |-> b]
JsonString(v) == [t |-> "string", v |-> v]
JsonNumber(text) == [t |-> "number", text |-> text]
JsonArray(items) == [t |-> "array", items |-> items]
JsonObject(members) == [t |-> "object", members |-> members]
\* The literal of a number below 2^31.
JsonNat(n) == JsonNumber(ItoaNat(n))
\* The text null, and the texts that trim to it.
TextNull == TextJson(JsonNull)
IsNullText(text) == text.kind = "json" /\ text.doc.t = "null"

\* The members that are present, in the order given.
OptMember(key, value) == IF IsSome(value) THEN <<<<key, Unwrap(value)>>>> ELSE <<>>
\* {"challenge": <challenge>, "rules": <rules>}, each member an Option.
JsonDoc(challenge, rules) ==
  JsonObject(OptMember("challenge", challenge) \o OptMember("rules", rules))
\* "challenge": "<s>"
ChalString(s) == JsonString(s)
\* "challenge": {<members>}
ChalMembers(members) == JsonObject(members)
\* "challenge": {"id": .., "randomData": ..}, each member an Option.
ChalObject(id, rd) ==
  ChalMembers((IF IsSome(id) THEN <<<<"id", JsonString(Unwrap(id))>>>> ELSE <<>>)
              \o (IF IsSome(rd) THEN <<<<"randomData", JsonString(Unwrap(rd))>>>>
                  ELSE <<>>))
\* "rules": {"difficulty": .., "algorithm": ..}: the difficulty an Option of
\* a JSON value, the algorithm an Option of a string.
RulesJson(difficulty, alg) ==
  JsonObject(OptMember("difficulty", difficulty)
             \o (IF IsSome(alg) THEN <<<<"algorithm", JsonString(Unwrap(alg))>>>>
                 ELSE <<>>))

\* The errors of serde_json: the category, the message, what the message is
\* about (a field, or the kind of value met) and what the decoder expected.
SerdeError(category, msg, what, expected) ==
  Err([category |-> category, msg |-> msg, what |-> what, expected |-> expected])
invalid_type(unexpected, expected) ==
  SerdeError("data", "invalid type", unexpected, expected)
invalid_value(unexpected, expected) ==
  SerdeError("data", "invalid value", unexpected, expected)
invalid_length(len, expected) ==
  SerdeError("data", "invalid length", len, expected)
missing_field(field) == SerdeError("data", "missing field", field, "")
duplicate_field(field) == SerdeError("data", "duplicate field", field, "")

\* serde_json parse_number: how the literal is handed to the visitor: as a
\* u64, as a negative i64, or as an f64 (a number that fits neither, and -0).
ParsedNumber(text) ==
  LET negative == Head(text) = 45
      Visit(significand) ==
        IF ~IsSome(significand) THEN [kind |-> "f64", val |-> U64(0)]
        ELSE IF ~negative THEN [kind |-> "u64", val |-> Unwrap(significand)]
        ELSE IF \/ Unwrap(significand) = U64(0)
                \/ /\ Unwrap(significand)[4] >= Limb \div 2
                   /\ Unwrap(significand) # <<0, 0, 0, Limb \div 2>>
             THEN [kind |-> "f64", val |-> U64(0)]
        ELSE [kind |-> "i64", val |-> Unwrap(significand)]
  IN  Visit(ParseU64(IF negative THEN Tail(text) ELSE text, U64(0)))

\* serde::de::Unexpected: the kind of value an error message names.
Unexpected(value) ==
  IF value.t = "null" THEN "null"
  ELSE IF value.t = "bool" THEN "boolean"
  ELSE IF value.t = "string" THEN "string"
  ELSE IF value.t = "array" THEN "sequence"
  ELSE IF value.t = "object" THEN "map"
  ELSE IF ParsedNumber(value.text).kind = "f64" THEN "floating point"
  ELSE "integer"

\* usize::deserialize: visit_u64 gives the value, visit_i64 of a negative
\* number is an invalid value, every other value an invalid type.
deserialize_usize(value) ==
  LET Visit(number) ==
        IF number.kind = "u64" THEN Ok(number.val)
        ELSE IF number.kind = "i64" THEN invalid_value("integer", "usize")
        ELSE invalid_type("floating point", "usize")
  IN  IF value.t # "number" THEN invalid_type(Unexpected(value), "usize")
      ELSE Visit(ParsedNumber(value.text))

\* String::deserialize
deserialize_String(value) ==
  IF value.t = "string" THEN Ok(value.v)
  ELSE invalid_type(Unexpected(value), "a string")

\* visit_map: the members are read in order; "id" and "randomData" must be
\* strings, the last occurrence of a key counts, every other member is
\* skipped (IgnoredAny); randomData is required.
RECURSIVE visit_map(_, _, _)
visit_map(members, id, random_data) ==
  IF members = <<>>
  THEN IF IsSome(random_data)
       THEN Ok([id |-> id, random_data |-> Unwrap(random_data)])
       ELSE missing_field("randomData")
  ELSE LET key == Head(members)[1]
           value == Head(members)[2]
       IN  IF key = "id"
           THEN IF deserialize_String(value).ok
                THEN visit_map(Tail(members), Some(value.v), random_data)
                ELSE deserialize_String(value)
           ELSE IF key = "randomData"
           THEN IF deserialize_String(value).ok
                THEN visit_map(Tail(members), id, Some(value.v))
                ELSE deserialize_String(value)
           ELSE visit_map(Tail(members), id, random_data)

\* impl Deserialize for ChallengeData: deserialize_any with visit_str and
\* visit_map; every other value, an array among them, is an invalid type.
deserialize_ChallengeData(cj) ==
  IF cj.t = "string" THEN Ok([id |-> None, random_data |-> cj.v])
  ELSE IF cj.t = "object" THEN visit_map(cj.members, None, None)
  ELSE invalid_type(Unexpected(cj), "a string or an object with id and randomData")

\* #[derive(Deserialize)] AnubisChallengeRules, visit_map: the members are
\* read in order; a member given twice is an error, a member the struct does
\* not have is skipped; difficulty is a required usize, algorithm defaults
\* to the empty string.
RECURSIVE visit_map_Rules(_, _, _)
visit_map_Rules(members, difficulty, alg) ==
  IF members = <<>>
  THEN IF IsSome(difficulty)
       THEN Ok([difficulty |-> Unwrap(difficulty),
                algorithm |-> IF IsSome(alg) THEN Unwrap(alg) ELSE ""])
       ELSE missing_field("difficulty")
  ELSE LET key == Head(members)[1]
           value == Head(members)[2]
           NextValue(decoded) ==
             IF decoded.ok
             THEN visit_map_Rules(Tail(members), Some(decoded.val), alg)
             ELSE decoded
       IN  IF key = "difficulty"
           THEN IF IsSome(difficulty) THEN duplicate_field("difficulty")
                ELSE NextValue(deserialize_usize(value))
           ELSE IF key = "algorithm"
           THEN IF IsSome(alg) THEN duplicate_field("algorithm")
                ELSE IF deserialize_String(value).ok
                THEN visit_map_Rules(Tail(members), difficulty, Some(value.v))
                ELSE deserialize_String(value)
           ELSE visit_map_Rules(Tail(members), difficulty, alg)

\* serde_json end_seq: after a visitor has returned from an array, elements
\* it has not read are trailing characters; the error of the visitor comes
\* first.
end_seq(decoded, items, read) ==
  IF decoded.ok /\ Len(items) > read
  THEN SerdeError("syntax", "trailing characters", "", "")
  ELSE decoded

\* #[derive(Deserialize)] AnubisChallengeRules, visit_seq: the elements are
\* the fields in the order of the struct, [difficulty, algorithm]; an array
\* without a first element is an invalid length, one without a second
\* leaves algorithm at its default.
visit_seq_Rules(items) ==
  LET Second(difficulty) ==
        IF ~difficulty.ok THEN difficulty
        ELSE IF Len(items) = 1
        THEN Ok([difficulty |-> difficulty.val, algorithm |-> ""])
        ELSE IF deserialize_String(items[2]).ok
        THEN Ok([difficulty |-> difficulty.val, algorithm |-> items[2].v])
        ELSE deserialize_String(items[2])
  IN  IF items = <<>>
      THEN invalid_length("0", "struct AnubisChallengeRules with 2 elements")
      ELSE Second(deserialize_usize(items[1]))

\* AnubisChallengeRules::deserialize (deserialize_struct of serde_json): an
\* object goes to visit_map, an array to visit_seq.
deserialize_Rules(rj) ==
  IF rj.t = "object" THEN visit_map_Rules(rj.members, None, None)
  ELSE IF rj.t = "array" THEN end_seq(visit_seq_Rules(rj.items), rj.items, 2)
  ELSE invalid_type(Unexpected(rj), "struct AnubisChallengeRules")

\* #[derive(Deserialize)] AnubisChallenge, visit_map: the error of the first
\* member that fails, in the order of the text; a missing member is
\* reported at the end of the object, challenge before rules.
RECURSIVE visit_map_AnubisChallenge(_, _, _)
visit_map_AnubisChallenge(members, challenge, rules) ==
  IF members = <<>>
  THEN IF ~IsSome(challenge) THEN missing_field("challenge")
       ELSE IF ~IsSome(rules) THEN missing_field("rules")
       ELSE Ok([challenge |-> Unwrap(challenge), rules |-> Unwrap(rules)])
  ELSE LET key == Head(members)[1]
           value == Head(members)[2]
           NextChallenge(decoded) ==
             IF decoded.ok
             THEN visit_map_AnubisChallenge(Tail(members), Some(decoded.val), rules)
             ELSE decoded
           NextRules(decoded) ==
             IF decoded.ok
             THEN visit_map_AnubisChallenge(Tail(members), challenge, Some(decoded.val))
             ELSE decoded
       IN  IF key = "challenge"
           THEN IF IsSome(challenge) THEN duplicate_field("challenge")
                ELSE NextChallenge(deserialize_ChallengeData(value))
           ELSE IF key = "rules"
           THEN IF IsSome(rules) THEN duplicate_field("rules")
                ELSE NextRules(deserialize_Rules(value))
           ELSE visit_map_AnubisChallenge(Tail(members), challenge, rules)

\* #[derive(Deserialize)] AnubisChallenge, visit_seq: the elements are the
\* fields in the order of the struct, [challenge, rules]; both are required.
visit_seq_AnubisChallenge(items) ==
  LET Second(challenge) ==
        IF ~challenge.ok THEN challenge
        ELSE IF Len(items) = 1
        THEN invalid_length("1", "struct AnubisChallenge with 2 elements")
        ELSE LET Built(rules) ==
                   IF ~rules.ok THEN rules
                   ELSE Ok([challenge |-> challenge.val, rules |-> rules.val])
             IN  Built(deserialize_Rules(items[2]))
  IN  IF items = <<>>
      THEN invalid_length("0", "struct AnubisChallenge with 2 elements")
      ELSE Second(deserialize_ChallengeData(items[1]))

\* serde_json::from_str::<AnubisChallenge>: deserialize_struct reads the
\* value, an object through visit_map and an array through visit_seq, and
\* Deserializer::end then rejects what follows a value that has decoded.
from_str_AnubisChallenge(text) ==
  LET End(decoded) ==
        IF decoded.ok /\ text.kind = "trailing"
        THEN SerdeError("syntax", "trailing characters", "", "")
        ELSE decoded
  IN  IF text.kind = "empty"
      THEN SerdeError("eof", "EOF while parsing a value", "", "")
      ELSE IF text.kind = "garbage"
      THEN SerdeError("syntax", "expected value", "", "")
      ELSE IF text.kind = "truncated"
      THEN SerdeError("eof", "EOF while parsing an object", "", "")
      ELSE IF text.doc.t = "object"
      THEN End(visit_map_AnubisChallenge(text.doc.members, None, None))
      ELSE IF text.doc.t = "array"
      THEN End(end_seq(visit_seq_AnubisChallenge(text.doc.items), text.doc.items, 2))
      ELSE invalid_type(Unexpected(text.doc), "struct AnubisChallenge")

\* An extractor that gives up when the page has no decodable version element.
parse_challenge_versioned(html) ==
  IF ~html.marker THEN None
  ELSE IF ~IsSome(html.elem) THEN None
  ELSE IF IsNullText(Unwrap(html.elem)) \/ Unwrap(html.elem).kind = "empty"
       THEN None
  ELSE LET Decoded(challenge) ==
             IF ~challenge.ok THEN None
             ELSE IF ~(IsSome(html.version) /\ Unwrap(html.version).kind = "string")
                  THEN None
             ELSE Some([challenge |-> challenge.val,
                        version |-> Unwrap(html.version).s])
       IN  Decoded(from_str_AnubisChallenge(Unwrap(html.elem)))

\* Parse Anubis challenge from HTML response body: Option<ParsedChallenge>.
parse_challenge_from_html(html) ==
  IF ~html.marker THEN None
  ELSE IF ~IsSome(html.elem) THEN None
  ELSE IF IsNullText(Unwrap(html.elem)) \/ Unwrap(html.elem).kind = "empty"
       THEN None
  ELSE LET Decoded(challenge) ==
             IF ~challenge.ok THEN None
             ELSE Some([challenge |-> challenge.val,
                        version |-> IF /\ IsSome(html.version)
                                       /\ Unwrap(html.version).kind = "string"
                                    THEN Unwrap(html.version).s
                                    ELSE "unknown"])
       IN  Decoded(from_str_AnubisChallenge(Unwrap(html.elem)))

(***************************************************************************)
(* The submission URL (build_submission_url).  A URL is the sequence of    *)
(* the bytes of its text, as format! writes it.                            *)
(***************************************************************************)
\* The characters urlencoding::encode leaves as they are: ASCII letters and
\* digits, and - . _ ~
Unreserved ==
  (48..57) \cup (65..90) \cup (97..122) \cup {45, 46, 95, 126}

\* An upper-case hexadecimal digit.
UpperHex(v) == IF v < 10 THEN 48 + v ELSE 55 + v

\* urlencoding::encode: every byte that is not unreserved becomes %XX.
RECURSIVE urlencode(_)
urlencode(data) ==
  IF data = <<>> THEN <<>>
  ELSE (IF Head(data) \in Unreserved THEN <<Head(data)>>
        ELSE <<37, UpperHex(Head(data) \div 16), UpperHex(Head(data) % 16)>>)
       \o urlencode(Tail(data))

\* The literal pieces of the format strings.
SchemeSep == <<58, 47, 47>>
Slash == <<47>>
QResult == <<63, 114, 101, 115, 117, 108, 116, 61>>
QChallenge == <<63, 99, 104, 97, 108, 108, 101, 110, 103, 101, 61>>
QResponse == <<63, 114, 101, 115, 112, 111, 110, 115, 101, 61>>
AmpNonce == <<38, 110, 111, 110, 99, 101, 61>>
AmpRedir == <<38, 114, 101, 100, 105, 114, 61>>
AmpElapsedTime == <<38, 101, 108, 97, 112, 115, 101, 100, 84, 105, 109, 101, 61>>

build_submission_url(scheme, host, ch, result, redir_url, elapsed_ms) ==
  LET encoded_redir == urlencode(redir_url)
      base == Utf8(scheme) \o SchemeSep \o Utf8(host) \o Slash \o SUBMISSION_PATH
  IN  IF algorithm(ch) = "preact"
      THEN base \o QResult \o result.hash \o AmpRedir \o encoded_redir
             \o AmpElapsedTime \o Itoa(elapsed_ms) \o id_param(ch)
      ELSE IF algorithm(ch) = "metarefresh"
      THEN base \o QChallenge \o result.hash \o AmpRedir \o encoded_redir
             \o AmpElapsedTime \o Itoa(elapsed_ms) \o id_param(ch)
      ELSE base \o QResponse \o result.hash
             \o AmpNonce \o Itoa(IF IsSome(result.nonce)
                                  THEN Unwrap(result.nonce) ELSE 0)
             \o AmpRedir \o encoded_redir
             \o AmpElapsedTime \o Itoa(elapsed_ms) \o id_param(ch)

(***************************************************************************)
(* The reverse proxy (src/bin/proxy.rs).                                   *)
(*                                                                         *)
(* Every inbound request runs handle_request as a task of the tokio        *)
(* runtime; a task is polled on one of the runtime worker threads and    *)
(* gives the thread back at each .await.  One action is one poll: the code *)
(* from one .await to the next.  The call of solve_challenge in            *)
(* solve_and_retry is synchronous, so the poll that reaches it keeps its   *)
(* worker thread from the end of FetchResp to SolveEnd.                    *)
(***************************************************************************)
\* In-flight inbound requests.
MaxRequests == 2
\* The tokio runtime has one worker thread, or MaxSched of them.
MaxSched == 2
\* Clock ticks per millisecond: an Instant is a number of ticks.
TicksPerMs == 2
\* The clock stops being advanced by ticks at MaxTime ticks.
MaxTime == 1700

Reqs == 1..MaxRequests

\* A Duration, and the deadline of a sleep, is a number of ticks, held as
\* its five 16-bit limbs, the least significant first: the ticks of every
\* u64 of milliseconds fit them.  Duration(n) is the Duration of n ticks.
Duration(n) == <<n % Limb, n \div Limb, 0, 0, 0>>
\* A Duration below 2^30 ticks, and its number of ticks.
DurationFits(d) == d[3] = 0 /\ d[4] = 0 /\ d[5] = 0 /\ d[2] < (Limb \div 4)
DurationTicks(d) == d[1] + (Limb * d[2])

\* x < y, x + y and, for y <= x, x - y on Durations.
LessLimbs(x, y) ==
  \E i \in 1..5 : x[i] < y[i] /\ \A j \in (i + 1)..5 : x[j] = y[j]
SumLimbs(x, y) ==
  LET s1 == x[1] + y[1]
      s2 == x[2] + y[2] + (s1 \div Limb)
      s3 == x[3] + y[3] + (s2 \div Limb)
      s4 == x[4] + y[4] + (s3 \div Limb)
      s5 == x[5] + y[5] + (s4 \div Limb)
  IN  <<s1 % Limb, s2 % Limb, s3 % Limb, s4 % Limb, s5 % Limb>>
SubLimbs(x, y) ==
  LET Borrow(d) == IF d < 0 THEN 1 ELSE 0
      d1 == x[1] - y[1]
      d2 == x[2] - y[2] - Borrow(d1)
      d3 == x[3] - y[3] - Borrow(d2)
      d4 == x[4] - y[4] - Borrow(d3)
      d5 == x[5] - y[5] - Borrow(d4)
  IN  <<(d1 + Limb) % Limb, (d2 + Limb) % Limb, (d3 + Limb) % Limb,
        (d4 + Limb) % Limb, (d5 + Limb) % Limb>>

\* Duration::from_millis of a u64 and Duration::as_millis of a Duration the
\* clock has measured.
from_millis(ms) == MulLimbs(ms, TicksPerMs)
as_millis(d) == DurationTicks(d) \div TicksPerMs


(***************************************************************************)
(* The cookie store of a client: reqwest::cookie::Jar, a                   *)
(* cookie_store::CookieStore behind a lock, handed to the client with      *)
(* cookie_provider (proxy.rs 132, main.rs 70 and 233).  The client gives   *)
(* the store the Set-Cookie headers of every response with the URL of the  *)
(* request, and asks it for the cookies of every request it sends.  The    *)
(* store reads the wall clock; the model reads the clock of the run.  The  *)
(* texts of the model carry no Expires attribute.                          *)
(***************************************************************************)
\* The pieces of a byte string between the occurrences of the byte sep.
SplitBytes(s, sep) ==
  LET at == {i \in 1..Len(s) : s[i] = sep}
      nth(k) == CHOOSE i \in at : Cardinality({j \in at : j < i}) = k - 1
      n == Cardinality(at) + 1
  IN  [k \in 1..n |->
         SubSeq(s, IF k = 1 THEN 1 ELSE nth(k - 1) + 1,
                   IF k = n THEN Len(s) ELSE nth(k) - 1)]

\* The position of the first occurrence of byte c in s (Len(s) + 1 if none).
FirstIndex(s, c) ==
  IF \E i \in 1..Len(s) : s[i] = c
  THEN CHOOSE i \in 1..Len(s) : s[i] = c /\ \A j \in 1..(i - 1) : s[j] # c
  ELSE Len(s) + 1

\* str::trim on ASCII: the text without leading and trailing white space.
IsSpace(c) == c = 32 \/ c \in 9..13
Trim(s) ==
  LET keep == {i \in 1..Len(s) : ~IsSpace(s[i])}
  IN  IF keep = {} THEN <<>>
      ELSE SubSeq(s, CHOOSE i \in keep : \A j \in keep : i <= j,
                     CHOOSE i \in keep : \A j \in keep : j <= i)

\* str::to_ascii_lowercase
to_ascii_lowercase(s) ==
  [i \in 1..Len(s) |-> IF s[i] \in 65..90 THEN s[i] + 32 ELSE s[i]]

\* The number a text of decimal digits writes.
RECURSIVE ParseDigits(_, _)
ParseDigits(s, acc) ==
  IF s = <<>> THEN acc ELSE ParseDigits(Tail(s), (10 * acc) + (Head(s) - 48))

\* The names of the attributes of a Set-Cookie header.
AttrSecure == <<115, 101, 99, 117, 114, 101>>
AttrHttpOnly == <<104, 116, 116, 112, 111, 110, 108, 121>>
AttrMaxAge == <<109, 97, 120, 45, 97, 103, 101>>
AttrDomain == <<100, 111, 109, 97, 105, 110>>
AttrPath == <<112, 97, 116, 104>>

\* cookie::Cookie::parse: the text is split at ';'; the first piece is
\* name=value, both trimmed, and a piece without '=' or with an empty name
\* is an error; each further piece is an attribute, its name compared
\* without case, and of an attribute given twice the last one counts.
\* Max-Age is taken when its value is digits after an optional '-', and a
\* negative one is zero seconds; Domain is taken when its value is not
\* empty, without a leading dot.
Cookie_parse(text) ==
  LET pieces == SplitBytes(text, 59)
      pair == pieces[1]
      eq == FirstIndex(pair, 61)
      Attr(piece) ==
        LET e == FirstIndex(piece, 61)
        IN  [key |-> to_ascii_lowercase(Trim(SubSeq(piece, 1, e - 1))),
             value |-> IF e <= Len(piece)
                       THEN Some(Trim(SubSeq(piece, e + 1, Len(piece))))
                       ELSE None]
      attrs == [i \in 1..(Len(pieces) - 1) |-> Attr(pieces[i + 1])]
      Unsigned(v) == IF v # <<>> /\ Head(v) = 45 THEN Tail(v) ELSE v
      Taken(i) ==
        IF attrs[i].key = AttrMaxAge
        THEN /\ IsSome(attrs[i].value)
             /\ \A j \in 1..Len(Unsigned(Unwrap(attrs[i].value))) :
                  Unsigned(Unwrap(attrs[i].value))[j] \in 48..57
        ELSE IF attrs[i].key = AttrDomain
        THEN IsSome(attrs[i].value) /\ Unwrap(attrs[i].value) # <<>>
        ELSE IF attrs[i].key = AttrPath THEN IsSome(attrs[i].value)
        ELSE TRUE
      at(key) == {i \in 1..Len(attrs) : attrs[i].key = key /\ Taken(i)}
      last(key) == Unwrap(attrs[CHOOSE i \in at(key) : \A j \in at(key) : j <= i].value)
      StripDot(d) == IF Head(d) = 46 THEN Tail(d) ELSE d
      MaxAge(v) == IF Head(v) = 45 THEN 0 ELSE ParseDigits(v, 0)
  IN  IF eq > Len(pair) THEN Err("MissingPair")
      ELSE IF Trim(SubSeq(pair, 1, eq - 1)) = <<>> THEN Err("EmptyName")
      ELSE Ok([name |-> Trim(SubSeq(pair, 1, eq - 1)),
               value |-> Trim(SubSeq(pair, eq + 1, Len(pair))),
               domain |-> IF at(AttrDomain) = {} THEN None
                          ELSE Some(StripDot(last(AttrDomain))),
               path |-> IF at(AttrPath) = {} THEN None ELSE Some(last(AttrPath)),
               secure |-> at(AttrSecure) # {},
               http_only |-> at(AttrHttpOnly) # {},
               max_age |-> IF at(AttrMaxAge) = {} THEN None
                           ELSE Some(MaxAge(last(AttrMaxAge)))])

\* url::Url: the scheme, the host and the path of a URL scheme://host/path?query.
UrlScheme(url) == SubSeq(url, 1, FirstIndex(url, 58) - 1)
UrlAfterScheme(url) == SubSeq(url, FirstIndex(url, 58) + 3, Len(url))
UrlHost(url) ==
  LET rest == UrlAfterScheme(url)
      end == IF FirstIndex(rest, 47) < FirstIndex(rest, 63)
             THEN FirstIndex(rest, 47) ELSE FirstIndex(rest, 63)
  IN  SubSeq(rest, 1, end - 1)
UrlPath(url) ==
  LET rest == UrlAfterScheme(url)
      from == SubSeq(rest, Len(UrlHost(url)) + 1, Len(rest))
      path == SubSeq(from, 1, FirstIndex(from, 63) - 1)
  IN  IF path = <<>> THEN Slash ELSE path

\* cookie_store is_secure: the scheme is https.
is_secure(url) == UrlScheme(url) = <<104, 116, 116, 112, 115>>

\* CookiePath::default_path: the path of the request up to, not including,
\* its last '/', and "/" if that is empty.
default_path(request_path) ==
  LET at == {i \in 1..Len(request_path) : request_path[i] = 47}
      cut == SubSeq(request_path, 1, (CHOOSE i \in at : \A j \in at : j <= i) - 1)
  IN  IF at = {} \/ cut = <<>> THEN Slash ELSE cut

\* CookiePath::matches: the paths are equal, or the cookie path is a prefix
\* of the request path that ends with '/' or is followed by '/'.
path_match(cookie_path, request_path) ==
  \/ cookie_path = request_path
  \/ /\ Len(cookie_path) < Len(request_path)
     /\ SubSeq(request_path, 1, Len(cookie_path)) = cookie_path
     /\ \/ cookie_path[Len(cookie_path)] = 47
        \/ request_path[Len(cookie_path) + 1] = 47

\* CookieDomain::matches: a host-only cookie matches its host alone; a
\* cookie with a Domain attribute matches the domain and its subdomains.
domain_match(domain, host_only, host) ==
  \/ domain = host
  \/ /\ ~host_only
     /\ Len(domain) < Len(host)
     /\ SubSeq(host, Len(host) - Len(domain) + 1, Len(host)) = domain
     /\ host[Len(host) - Len(domain)] = 46

\* CookieExpiration::from(max_age): Max-Age of zero is the earliest time
\* there is; any other is that many seconds from now.  None is a cookie of
\* the session.
ExpiresAt(max_age, at) ==
  IF ~IsSome(max_age) THEN None
  ELSE IF Unwrap(max_age) = 0 THEN Some(0)
  ELSE Some(at + (Unwrap(max_age) * 1000 * TicksPerMs))

\* Cookie::is_expired at time at.
is_expired(cookie, at) == IsSome(cookie.expires) /\ Unwrap(cookie.expires) <= at

\* cookie_store Cookie::try_from_raw_cookie: the cookie a response to the
\* request for url sets: the Domain attribute in lower case or the host of
\* the request, the Path attribute if it begins with '/' or the default
\* path of the request, and the expiry; a domain that does not match the
\* host of the request is an error.  (HttpOnly is refused on a URL that is
\* not http or https; the program requests https URLs only.)
try_from_raw_cookie(raw, url, at) ==
  LET host_only == ~IsSome(raw.domain)
      domain == IF host_only THEN UrlHost(url)
                ELSE to_ascii_lowercase(Unwrap(raw.domain))
      path == IF IsSome(raw.path) /\ Unwrap(raw.path) # <<>>
                 /\ Head(Unwrap(raw.path)) = 47
              THEN Unwrap(raw.path)
              ELSE default_path(UrlPath(url))
  IN  IF ~domain_match(domain, host_only, UrlHost(url)) THEN Err("DomainMismatch")
      ELSE Ok([name |-> raw.name, value |-> raw.value, domain |-> domain,
               host_only |-> host_only, path |-> path, secure |-> raw.secure,
               expires |-> ExpiresAt(raw.max_age, at)])

\* The key of a cookie in the store.
SameKey(c, d) == c.domain = d.domain /\ c.path = d.path /\ c.name = d.name

\* CookieStore::insert: an expired cookie expires the stored cookie of its
\* key that has not expired yet (a stored cookie that has expired is left as
\* it is: Err(Expired)) and is not stored itself; any other cookie takes the
\* place of the stored cookie of its key.
insert(store, cookie, at) ==
  LET old == {o \in store : SameKey(o, cookie)}
      live == {o \in old : ~is_expired(o, at)}
  IN  IF is_expired(cookie, at)
      THEN (store \ live) \cup {[o EXCEPT !.expires = Some(0)] : o \in live}
      ELSE (store \ old) \cup {cookie}

\* CookieStore::store_response_cookies: every Set-Cookie value that parses,
\* in the order of the headers, is inserted; the others are skipped.
RECURSIVE store_response_cookies(_, _, _, _)
store_response_cookies(store, values, url, at) ==
  IF values = <<>> THEN store
  ELSE LET Parsed(raw) ==
             IF ~raw.ok THEN store
             ELSE LET Built(cookie) ==
                        IF ~cookie.ok THEN store ELSE insert(store, cookie.val, at)
                  IN  Built(try_from_raw_cookie(raw.val, url, at))
       IN  store_response_cookies(Parsed(Cookie_parse(Utf8(Head(values)))),
                                  Tail(values), url, at)

\* Cookie::matches: the cookie goes with a request for url.
cookie_matches(cookie, url) ==
  /\ path_match(cookie.path, UrlPath(url))
  /\ domain_match(cookie.domain, cookie.host_only, UrlHost(url))
  /\ cookie.secure => is_secure(url)

\* CookieStore::get_request_values: the <<name, value>> pairs of the stored
\* cookies that have not expired and go with the request.  The client joins
\* them into the Cookie header in the order the store iterates in.
get_request_values(store, url, at) ==
  {<<c.name, c.value>> :
     c \in {d \in store : ~is_expired(d, at) /\ cookie_matches(d, url)}}

VARIABLES
  now,           \* the monotonic clock (Instant::now()), in ticks
  sched_threads, \* number of worker threads of the tokio runtime
  jars,          \* CookieJarCache: host -> jar (a DashMap)
  jar_cookies,   \* jar -> the cookies the reqwest::cookie::Jar holds
  req,           \* request -> the state of its handle_request task
  cli,           \* the state of the one run of the command-line solver (main.rs)
  call           \* the last call of a library function: its arguments and result

proxyvars == <<now, sched_threads, jars, jar_cookies, req>>
vars == <<powvars, proxyvars, cli, call>>

Resp(status, headers, body) ==
  [status |-> status, headers |-> headers, body |-> body]

\* The headers of a response are the sequence of its <<name, value>> pairs
\* in the order they came.  The values of its Set-Cookie headers, in order
\* (headers.get_all(SET_COOKIE)).
IsSetCookie(header) == header[1] = "set-cookie"
SetCookies(headers) ==
  LET set == SelectSeq(headers, IsSetCookie)
  IN  [i \in 1..Len(set) |-> set[i][2]]

\* An inbound path is the sequence of its segments: "/proxy/h1/p" is
\* <<"proxy", "h1", "p">>, "/proxy/" is <<"proxy", "">>, "/health" is <<"health">>.
InboundPaths ==
  {<<"health">>, <<"index">>, <<"proxy", "">>,
   <<"proxy", "h1", "p">>, <<"proxy", "h2", "p">>}
\* The query of an inbound request (uri().query()): None without a "?".
InboundQueries == {None, Some("q=1")}
\* The question mark, and the body of the reply to a path outside /proxy/.
QuestionMark == <<63>>
UsageText == "Usage: /proxy/<host>/<path>\nExample: /proxy/clew.se/search?q=test"

\* The text of a path: "/" and the segments joined by "/".
RECURSIVE PathText(_)
PathText(segments) ==
  IF Len(segments) <= 1
  THEN Slash \o (IF segments = <<>> THEN <<>> ELSE Utf8(segments[1]))
  ELSE Slash \o Utf8(segments[1]) \o PathText(Tail(segments))

\* format!("https://{}{}{}", host, target_path, query)
TargetUrl(host, target_path, query) ==
  Utf8("https") \o SchemeSep \o Utf8(host) \o PathText(target_path)
    \o (IF IsSome(query) THEN QuestionMark \o Utf8(Unwrap(query)) ELSE <<>>)

NewRequest ==
  [pc |-> "new", path |-> <<>>, query |-> None, host |-> "", url |-> None,
   jar |-> 0,
   fetched |-> None, parsed |-> None, start_time |-> 0, deadline |-> Duration(0),
   result |-> None, submit_url |-> None, submitted |-> None,
   submitted_at |-> 0, replayed |-> None, steps |-> <<>>, sent |-> <<>>, ret |-> None,
   reply |-> None]

ProxyInit ==
  /\ now = 0
  /\ sched_threads \in {1, MaxSched}
  /\ jars = <<>>
  /\ jar_cookies = <<>>
  /\ req = [r \in Reqs |-> NewRequest]

\* The tasks that hold a worker thread of the runtime across steps.
Solving == {r \in Reqs : req[r].pc = "solving"}

\* The tasks that are between two awaits of one poll: solve_and_retry
\* 201-215, from the return of the submission to the sending of the REPLAY.
Polled == {r \in Reqs : req[r].pc = "replay_send"}

\* A task can be polled only on a worker thread that is not held.
FreeThread == Cardinality(Solving \cup Polled) < sched_threads

\* A registry whose every call inserts a new jar for the host.
get_or_create_jar_insert(map, stores, host) ==
  [map |-> [h \in (DOMAIN map) \cup {host} |->
              IF h = host THEN Len(stores) + 1 ELSE map[h]],
   stores |-> Append(stores, {}),
   jar |-> Len(stores) + 1]

\* jars.entry(host).or_insert_with(|| Arc::new(Jar::default())).clone():
\* the registry and the jars after the call, and the jar it returns.
get_or_create_jar(map, stores, host) ==
  IF host \in DOMAIN map
  THEN [map |-> map, stores |-> stores, jar |-> map[host]]
  ELSE [map |-> [h \in (DOMAIN map) \cup {host} |->
                   IF h = host THEN Len(stores) + 1 ELSE map[h]],
        stores |-> Append(stores, {}),
        jar |-> Len(stores) + 1]

\* An outbound GET as the upstream sees it: the step that sent it, its URL,
\* the cookies the client's jar attached, the jar, and the time it was sent.
Outbound(step, url, jar, cookies, at) ==
  [step |-> step, url |-> url, jar |-> jar, cookies |-> cookies, at |-> at]

\* handle_request 95-102: the iterator of the HeaderMap names only the
\* first value of a header; that value is forwarded unless the header is
\* hop-by-hop.  The reply holds the set of the pairs forwarded.
ForwardedHeaders(headers) ==
  {headers[i] :
     i \in {j \in 1..Len(headers) :
              /\ \A k \in 1..(j - 1) : headers[k][1] # headers[j][1]
              /\ headers[j][1] # "transfer-encoding"
              /\ headers[j][1] # "connection"}}

\* handle_request 92-112: the response written to the inbound connection.
Reply(ret) ==
  IF ret.ok
  THEN [status |-> ret.val.status,
        headers |-> ForwardedHeaders(ret.val.headers),
        body |-> ret.val.body]
  ELSE [status |-> 502, headers |-> <<>>, body |-> <<"Proxy error: ", ret.err>>]

\* The task ends: proxy_request returned ret.
Finish(rec, ret) ==
  [rec EXCEPT !.pc = "done", !.ret = Some(ret), !.reply = Some(Reply(ret))]

\* handle_request 55-92 and proxy_request 127-140: routing, the target URL,
\* the jar of the host, and the FETCH request.
HandleRequest(r, path, query) ==
  /\ req[r].pc = "new"
  /\ FreeThread
  /\ IF path = <<"health">>
     THEN /\ req' = [req EXCEPT ![r] =
                [@ EXCEPT !.pc = "done", !.path = path, !.query = query,
                          !.reply = Some(Resp(200, <<>>, "ok"))]]
          /\ UNCHANGED <<jars, jar_cookies>>
     ELSE IF ~(Len(path) >= 2 /\ path[1] = "proxy")
     THEN /\ req' = [req EXCEPT ![r] =
                [@ EXCEPT !.pc = "done", !.path = path, !.query = query,
                          !.reply = Some(Resp(400, <<>>, UsageText))]]
          /\ UNCHANGED <<jars, jar_cookies>>
     ELSE IF path[2] = ""
     THEN /\ req' = [req EXCEPT ![r] =
                [@ EXCEPT !.pc = "done", !.path = path, !.query = query,
                          !.reply = Some(Resp(400, <<>>, "Missing host in path"))]]
          /\ UNCHANGED <<jars, jar_cookies>>
     ELSE LET host == path[2]
              url == TargetUrl(host, SubSeq(path, 3, Len(path)), query)
              got == get_or_create_jar(jars, jar_cookies, host)
          IN  /\ jars' = got.map
              /\ jar_cookies' = got.stores
              /\ req' = [req EXCEPT ![r] =
                   [@ EXCEPT !.pc = "fetch_wait", !.path = path, !.query = query,
                             !.host = host,
                             !.url = Some(url), !.jar = got.jar,
                             !.steps = <<"FETCH">>,
                             !.sent = <<Outbound("FETCH", url, got.jar,
                                          get_request_values(got.stores[got.jar],
                                                             url, now),
                                          now)>>]]
  /\ UNCHANGED <<now, sched_threads, powvars, cli, call>>

\* A client built without a cookie_provider: responses leave the jar alone.
StoreCookiesNone(stores, jar, headers, url, at) == stores

\* The client's cookie_provider (Jar::set_cookies) stores the cookies of a
\* response to the request for url in the jar.
StoreCookies(stores, jar, headers, url, at) ==
  [stores EXCEPT ![jar] =
     store_response_cookies(@, SetCookies(headers), url, at)]

\* How send().await ends, and how bytes().await ends.
SendOutcomes == {"ok", "send_err"}
BytesOutcomes == {"ok", "body_err"}
\* A passthrough that answers every upstream status with 200.
PassthroughOk(resp) == Ok([resp EXCEPT !.status = 200])

\* proxy_request 157: Ok((status, headers, body)).
Passthrough(resp) == Ok(resp)

\* proxy_request 136-142: send().await returns.  An error ends the task.
\* Otherwise the head of the FETCH response has come: the client has stored
\* its cookies in the jar, and the task awaits the body.
FetchSend(r, resp, io) ==
  /\ req[r].pc = "fetch_wait"
  /\ FreeThread
  /\ IF io = "send_err"
     THEN /\ req' = [req EXCEPT ![r] = Finish(@, Err("send"))]
          /\ UNCHANGED jar_cookies
     ELSE /\ jar_cookies' = StoreCookies(jar_cookies, req[r].jar, resp.headers,
                                         Unwrap(req[r].url), now)
          /\ req' = [req EXCEPT ![r] =
                       [@ EXCEPT !.pc = "fetch_body", !.fetched = Some(resp)]]
  /\ UNCHANGED <<now, sched_threads, jars, powvars, cli, call>>

\* proxy_request 143-157 and solve_and_retry 167-170: bytes().await returns:
\* extraction, and either the passthrough return or the start of the solve.
FetchBytes(r, io) ==
  /\ req[r].pc = "fetch_body"
  /\ FreeThread
  /\ LET resp == Unwrap(req[r].fetched)
         seen == IF resp.body.marker THEN <<"EXTRACT">> ELSE <<>>
         Extracted(parsed) ==
           IF IsSome(parsed)
           THEN [req[r] EXCEPT !.pc = "solving", !.parsed = parsed,
                               !.start_time = now,
                               !.steps = @ \o <<"EXTRACT", "SOLVE">>]
           ELSE Finish([req[r] EXCEPT !.steps = @ \o seen], Passthrough(resp))
     IN  IF io = "body_err"
         THEN req' = [req EXCEPT ![r] = Finish(@, Err("body"))]
         ELSE req' = [req EXCEPT ![r] =
                        Extracted(parse_challenge_from_html(resp.body))]
  /\ UNCHANGED <<now, sched_threads, jars, jar_cookies, powvars, cli, call>>

\* solve_and_retry 179-199: the elapsed time, the submission URL and the
\* SUBMIT request.
Submit(rec, store) ==
  LET elapsed_time == Duration(now - rec.start_time)
      submit_url == build_submission_url("https", rec.host,
                      Unwrap(rec.parsed).challenge, Unwrap(rec.result),
                      Unwrap(rec.url), as_millis(elapsed_time))
  IN  [rec EXCEPT !.pc = "submit_wait", !.submit_url = Some(submit_url),
                  !.steps = @ \o <<"SUBMIT">>,
                  !.sent = @ \o
                    <<Outbound("SUBMIT", submit_url, rec.jar,
                               get_request_values(store, submit_url, now), now)>>]

\* The remaining wait of solve_and_retry 172-177: None when no sleep is due.
RemainingWait(ch, elapsed) ==
  IF IsSome(min_wait(ch))
     /\ LessLimbs(elapsed, from_millis(Unwrap(min_wait(ch))))
  THEN Some(SubLimbs(from_millis(Unwrap(min_wait(ch))), elapsed))
  ELSE None

\* solve_and_retry 170-177: solve_challenge returns; on Ok the task
\* sleeps the rest of the minimum wait or goes on to submit.  A panic in
\* min_wait ends the task with no reply.
SolveEnd(r) ==
  /\ req[r].pc = "solving"
  /\ \E res \in solve_challenge(Unwrap(req[r].parsed).challenge, num_threads),
        overflow_checks \in BOOLEAN :
     IF ~res.ok
        THEN req' = [req EXCEPT ![r] = Finish(@, Err(res.err))]
        ELSE IF overflow_checks /\ min_wait_overflows(Unwrap(req[r].parsed).challenge)
        THEN req' = [req EXCEPT ![r] = [@ EXCEPT !.pc = "panicked"]]
        ELSE LET rec == [req[r] EXCEPT !.result = Some(res.val),
                                        !.steps = @ \o <<"WAIT">>]
                 remaining == RemainingWait(Unwrap(rec.parsed).challenge,
                                            Duration(now - rec.start_time))
             IN  IF IsSome(remaining)
                 THEN req' = [req EXCEPT ![r] =
                        [rec EXCEPT !.pc = "sleeping",
                                    !.deadline = SumLimbs(Duration(now),
                                                          Unwrap(remaining))]]
                 ELSE req' = [req EXCEPT ![r] = Submit(rec, jar_cookies[rec.jar])]
  /\ UNCHANGED <<now, sched_threads, jars, jar_cookies, powvars, cli, call>>

\* solve_and_retry 175: tokio::time::sleep returns at or after its deadline.
SleepWake(r) ==
  /\ req[r].pc = "sleeping"
  /\ ~LessLimbs(Duration(now), req[r].deadline)
  /\ FreeThread
  /\ req' = [req EXCEPT ![r] = Submit(@, jar_cookies[@.jar])]
  /\ UNCHANGED <<now, sched_threads, jars, jar_cookies, powvars, cli, call>>

\* A check that takes every status below 400 for the redirect.
VerifyRedirectLoose(status) == status < 400

\* solve_and_retry 204: submit_status == StatusCode::FOUND.
VerifyRedirect(status) == status = 302

\* solve_and_retry 195-219: send().await of the SUBMIT returns: the cookies
\* of the response are in the jar; on 302 the REPLAY request is sent, on any
\* other status the task awaits the body of the submission response.
SubmitSend(r, resp, io) ==
  /\ req[r].pc = "submit_wait"
  /\ FreeThread
  /\ IF io = "send_err"
     THEN /\ req' = [req EXCEPT ![r] = Finish(@, Err("send"))]
          /\ UNCHANGED jar_cookies
     ELSE /\ jar_cookies' = StoreCookies(jar_cookies, req[r].jar, resp.headers,
                                         Unwrap(req[r].submit_url), now)
          /\ LET rec == [req[r] EXCEPT !.submitted = Some(resp),
                                       !.submitted_at = now,
                                       !.steps = @ \o <<"VERIFY">>]
             IN  IF ~VerifyRedirect(resp.status)
                 THEN req' = [req EXCEPT ![r] = [rec EXCEPT !.pc = "submit_body"]]
                 ELSE req' = [req EXCEPT ![r] = [rec EXCEPT !.pc = "replay_send"]]
  /\ UNCHANGED <<now, sched_threads, jars, powvars, cli, call>>

\* solve_and_retry 213-218: client.get(original_url).send() after a 302: the
\* REPLAY leaves with the cookies the jar holds for the original URL at that
\* moment.  The task has not yielded since the submission returned, and the
\* tasks on the other worker threads have run meanwhile.
ReplayRequest(r) ==
  /\ req[r].pc = "replay_send"
  /\ req' = [req EXCEPT ![r] =
               [@ EXCEPT !.pc = "replay_wait",
                         !.steps = @ \o <<"REPLAY">>,
                         !.sent = @ \o
                           <<Outbound("REPLAY", Unwrap(req[r].url), req[r].jar,
                               get_request_values(jar_cookies[req[r].jar],
                                                  Unwrap(req[r].url), now),
                               now)>>]]
  /\ UNCHANGED <<now, sched_threads, jars, jar_cookies, powvars, cli, call>>

\* solve_and_retry 205-210: bytes().await of a submission response that is
\* not a 302 returns: the response is the result.
SubmitBytes(r, io) ==
  /\ req[r].pc = "submit_body"
  /\ FreeThread
  /\ IF io = "body_err"
     THEN req' = [req EXCEPT ![r] = Finish(@, Err("body"))]
     ELSE req' = [req EXCEPT ![r] = Finish(@, Ok(Unwrap(@.submitted)))]
  /\ UNCHANGED <<now, sched_threads, jars, jar_cookies, powvars, cli, call>>

\* An orchestrator that solves again when the replayed page is a challenge.
ReplayResultResolve(rec, resp) ==
  IF IsSome(parse_challenge_from_html(resp.body))
  THEN [rec EXCEPT !.pc = "solving",
                   !.parsed = parse_challenge_from_html(resp.body),
                   !.steps = @ \o <<"EXTRACT", "SOLVE">>]
  ELSE Finish(rec, Ok(resp))

\* solve_and_retry 220-224: Ok((status, headers, body)) of the REPLAY response.
ReplayResult(rec, resp) == Finish(rec, Ok(resp))

\* solve_and_retry 215-221: send().await of the REPLAY returns: the cookies
\* of the response are in the jar and the task awaits the body.
ReplaySend(r, resp, io) ==
  /\ req[r].pc = "replay_wait"
  /\ FreeThread
  /\ IF io = "send_err"
     THEN /\ req' = [req EXCEPT ![r] = Finish(@, Err("send"))]
          /\ UNCHANGED jar_cookies
     ELSE /\ jar_cookies' = StoreCookies(jar_cookies, req[r].jar, resp.headers,
                                         Unwrap(req[r].url), now)
          /\ req' = [req EXCEPT ![r] =
                       [@ EXCEPT !.pc = "replay_body", !.replayed = Some(resp)]]
  /\ UNCHANGED <<now, sched_threads, jars, powvars, cli, call>>

\* solve_and_retry 222-224: bytes().await of the REPLAY returns: the REPLAY
\* response is the result.
ReplayBytes(r, io) ==
  /\ req[r].pc = "replay_body"
  /\ FreeThread
  /\ IF io = "body_err"
     THEN req' = [req EXCEPT ![r] = Finish(@, Err("body"))]
     ELSE req' = [req EXCEPT ![r] = ReplayResult(@, Unwrap(@.replayed))]
  /\ UNCHANGED <<now, sched_threads, jars, jar_cookies, powvars, cli, call>>

\* Time passes while a task sleeps: the clock reaches the next deadline.
\* The clock holds an Instant below 2^30 ticks.
Elapse ==
  LET due == {req[r].deadline :
                r \in {q \in Reqs : /\ req[q].pc = "sleeping"
                                    /\ LessLimbs(Duration(now), req[q].deadline)
                                    /\ DurationFits(req[q].deadline)}}
  IN  /\ due # {}
      /\ now' = Min({DurationTicks(d) : d \in due})
  /\ UNCHANGED <<sched_threads, jars, jar_cookies, req, powvars, cli, call>>

\* Time passes, by dt ticks, while a solve or a sleep is under way.
Tick(dt) ==
  /\ \E r \in Reqs : req[r].pc \in {"solving", "sleeping"}
  /\ now + dt <= MaxTime
  /\ now' = now + dt
  /\ UNCHANGED <<sched_threads, jars, jar_cookies, req, powvars, cli, call>>

\* Time passes between two steps of the proxy: until the next expiry of a
\* cookie a jar holds.
JarElapse ==
  LET due == {Unwrap(c.expires) :
                c \in {d \in UNION {jar_cookies[j] : j \in 1..Len(jar_cookies)} :
                         IsSome(d.expires) /\ ~is_expired(d, now)}}
  IN  /\ due # {}
      /\ now' = Min(due)
  /\ UNCHANGED <<sched_threads, jars, jar_cookies, req, powvars, cli, call>>

(***************************************************************************)
(* The upstream: the responses it may give to the three outbound requests. *)
(***************************************************************************)
HtmlHeaders == <<<<"content-type", "text/html">>>>
HopHeaders ==
  HtmlHeaders \o <<<<"transfer-encoding", "chunked">>, <<"connection", "close">>>>
CookieHeaders(c) == HtmlHeaders \o <<<<"set-cookie", c>>>>
\* Headers that give a name more than once.
RepeatHeaders ==
  <<<<"set-cookie", "a=1; Path=/">>, <<"x-a", "1">>, <<"set-cookie", "b=2">>,
    <<"x-a", "2">>>>
\* The cookie of a session as Anubis sets it, one that lasts a second, one
\* without a Path, and the header that deletes it.
AuthCookie == "auth=t1; Path=/; HttpOnly"
ShortCookie == "auth=t2; Max-Age=1; Path=/; Secure"
UnscopedCookie == "auth=t3"
DeleteCookie == "auth=; Max-Age=0; Path=/"

VersionText == Some([kind |-> "string", s |-> "v1.21.0"])

PagePlain == Body(FALSE, None, None)
PageMention == Body(TRUE, None, None)
PageNull == Body(TRUE, Some(TextNull), VersionText)
PageGarbage == Body(TRUE, Some(TextGarbage), VersionText)
PageNoRandomData ==
  Body(TRUE,
       Some(TextJson(JsonDoc(Some(ChalObject(Some("id0"), None)),
                             Some(RulesJson(Some(JsonNat(1)), Some("fast")))))),
       VersionText)

PageNoRules ==
  Body(TRUE,
       Some(TextJson(JsonDoc(Some(ChalObject(Some("id0"), Some(Payload1))),
                             None))),
       VersionText)

\* A challenge page in the legacy shape (the challenge is a bare string).
LegacyPage(rd, d, alg) ==
  Body(TRUE, Some(TextJson(JsonDoc(Some(ChalString(rd)), Some(RulesJson(Some(d), alg))))),
       None)
\* A challenge page whose document is in the sequence form:
\* ["<rd>", [<d>, "<alg>"]].
SequencePage(rd, d, alg) ==
  Body(TRUE,
       Some(TextJson(JsonArray(<<ChalString(rd),
                                 JsonArray(<<d, JsonString(alg)>>)>>))),
       VersionText)
\* A challenge page in the current shape (the challenge is an object).
ChallengePage(id, rd, d, alg) ==
  Body(TRUE,
       Some(TextJson(JsonDoc(Some(ChalObject(Some(id), Some(rd))),
                             Some(RulesJson(Some(d), Some(alg)))))),
       VersionText)

FetchResponses ==
  { Resp(200, HopHeaders, PagePlain),
    Resp(200, RepeatHeaders, PagePlain),
    Resp(404, CookieHeaders("visit=1"), PagePlain),
    Resp(200, CookieHeaders(DeleteCookie), PagePlain),
    Resp(503, HtmlHeaders, PageMention),
    Resp(200, HtmlHeaders, PageNull),
    Resp(200, HtmlHeaders, PageGarbage),
    Resp(200, HtmlHeaders, PageNoRandomData),
    Resp(200, HtmlHeaders, PageNoRules),
    Resp(200, CookieHeaders("test=1; Path=/"), LegacyPage(Payload1, JsonNat(1), None)),
    Resp(200, HtmlHeaders, SequencePage(Payload1, JsonNat(1), "fast")),
    Resp(401, HtmlHeaders, ChallengePage("id1", Payload2, JsonNat(2), "preact")),
    Resp(200, HtmlHeaders,
         ChallengePage("id4", Payload2,
                       JsonNumber(U64Itoa(OverflowDifficulty)), "preact")),
    Resp(200, HtmlHeaders, ChallengePage("id1", Payload1, JsonNat(11), "preact")),
    Resp(200, HtmlHeaders, ChallengePage("id2", Payload1, JsonNat(1), "metarefresh")),
    Resp(200, HtmlHeaders, ChallengePage("id3", Payload1, JsonNat(65), "fast")) }

SubmitResponses ==
  { Resp(302, CookieHeaders(AuthCookie), PagePlain),
    Resp(302,
         <<<<"set-cookie", "sid=s1; Domain=.H1; path=/p">>,
           <<"set-cookie", "sid=s2; Domain=h9; Path=/">>,
           <<"set-cookie", "novalue">>>>,
         PagePlain),
    Resp(302, HtmlHeaders, PagePlain),
    Resp(403, HopHeaders, PagePlain),
    Resp(200, CookieHeaders(AuthCookie), PagePlain) }

ReplayResponses ==
  { Resp(200, HopHeaders, PagePlain),
    Resp(200, HtmlHeaders, LegacyPage(Payload1, JsonNat(1), None)),
    Resp(500, HtmlHeaders, PagePlain) }

(***************************************************************************)
(* The command-line solver (src/main.rs): one run of main, from the FETCH   *)
(* of --url to the printed content.  The run has its own cookie jar, which *)
(* its two clients share; one action is the code from one .await to the    *)
(* next.                                                                   *)
(***************************************************************************)
CliNew ==
  [pc |-> "new", print_html |-> FALSE, url |-> None, cookies |-> {},
   fetched |-> None, challenge |-> None, start_time |-> 0, deadline |-> Duration(0),
   result |-> None, submit_url |-> None, sent_at |-> 0, submitted |-> None,
   replayed |-> None, steps |-> <<>>, sent |-> <<>>, stdout |-> None,
   ret |-> None]

CliInit == cli = CliNew

\* main returns: Ok(()) or the error.
CliFinish(rec, ret) == [rec EXCEPT !.pc = "done", !.ret = Some(ret)]

\* StatusCode::is_success.
is_success(status) == status >= 200 /\ status < 300

\* main.rs 36-74: the arguments are parsed, the client is built on a new jar
\* and the FETCH request is sent.
CliStart(print_html) ==
  /\ cli.pc = "new"
  /\ LET base_url == TargetUrl("h1", <<"p">>, None)
     IN  cli' = [cli EXCEPT !.pc = "fetch_wait", !.print_html = print_html,
                            !.url = Some(base_url), !.steps = <<"FETCH">>,
                            !.sent = <<Outbound("FETCH", base_url, 0, {}, now)>>]
  /\ UNCHANGED <<powvars, proxyvars, call>>

\* main.rs 191-225: the submission URL; redir is the base URL as given and
\* "&id=" is always written, followed by the id (by nothing when the
\* challenge has none).
cli_submission_url(scheme, host, ch, result, base_url, elapsed_ms) ==
  LET base == Utf8(scheme) \o SchemeSep \o Utf8(host) \o Slash \o SUBMISSION_PATH
      id == IF IsSome(ch.challenge.id) THEN Utf8(Unwrap(ch.challenge.id)) ELSE <<>>
  IN  IF ch.rules.algorithm = "preact"
      THEN base \o QResult \o result.hash \o AmpRedir \o base_url
             \o AmpElapsedTime \o Itoa(elapsed_ms) \o AmpId \o id
      ELSE IF ch.rules.algorithm = "metarefresh"
      THEN base \o QChallenge \o result.hash \o AmpRedir \o base_url
             \o AmpElapsedTime \o Itoa(elapsed_ms) \o AmpId \o id
      ELSE base \o QResponse \o result.hash
             \o AmpNonce \o Itoa(IF IsSome(result.nonce)
                                  THEN Unwrap(result.nonce) ELSE 0)
             \o AmpRedir \o base_url
             \o AmpElapsedTime \o Itoa(elapsed_ms) \o AmpId \o id

\* main.rs 101-114 and 186-188: the start of the solve, or the error of an
\* algorithm that is none of preact, metarefresh, fast and slow.
CliSolveBegin(rec, ch) ==
  IF ch.rules.algorithm \in {"preact", "metarefresh", "fast", "slow"}
  THEN [rec EXCEPT !.pc = "solving", !.challenge = Some(ch),
                   !.start_time = now, !.steps = @ \o <<"SOLVE">>]
  ELSE CliFinish([rec EXCEPT !.challenge = Some(ch)],
                 Err("Unsupported algorithm"))

\* The jar of the run after the response to the request for url.
CliStore(rec, resp, url) ==
  store_response_cookies(rec.cookies, SetCookies(resp.headers), url, now)

\* main.rs 75-79: send().await of the FETCH returns.  An error ends the
\* run, and so does a status that is not 2xx; otherwise the run awaits the
\* text of the page.
CliFetchSend(resp, io) ==
  /\ cli.pc = "fetch_wait"
  /\ IF io = "send_err" THEN cli' = CliFinish(cli, Err("send"))
     ELSE LET rec == [cli EXCEPT !.fetched = Some(resp),
                                 !.cookies = CliStore(cli, resp, Unwrap(cli.url))]
          IN  IF ~is_success(resp.status)
              THEN cli' = CliFinish(rec, Err("Failed to fetch challenge page"))
              ELSE cli' = [rec EXCEPT !.pc = "fetch_body"]
  /\ UNCHANGED <<powvars, proxyvars, call>>

\* main.rs 79-114: text().await of the FETCH returns.  A page without the
\* #anubis_challenge element, an empty element and a text that does not
\* decode are errors of the run; a decoded challenge is solved.
CliFetchBytes(io) ==
  /\ cli.pc = "fetch_body"
  /\ LET resp == Unwrap(cli.fetched)
         seen == [cli EXCEPT !.steps = @ \o <<"EXTRACT">>]
         Decoded(challenge) ==
           IF ~challenge.ok THEN CliFinish(seen, challenge)
           ELSE CliSolveBegin(seen, challenge.val)
     IN  IF io = "body_err" THEN cli' = CliFinish(cli, Err("body"))
         ELSE IF ~IsSome(resp.body.elem)
         THEN cli' = CliFinish(seen, Err("Could not find #anubis_challenge element"))
         ELSE IF Unwrap(resp.body.elem).kind = "empty"
         THEN cli' = CliFinish(seen,
                       Err("Found #anubis_challenge element but it was empty"))
         ELSE cli' = Decoded(from_str_AnubisChallenge(Unwrap(resp.body.elem)))
  /\ UNCHANGED <<powvars, proxyvars, call>>

\* main.rs 189-238: the URL is built and the submission request is sent.
CliSubmit(rec) ==
  LET total_elapsed == Duration(now - rec.start_time)
      submission_url == cli_submission_url("https", "h1",
                          Unwrap(rec.challenge), Unwrap(rec.result),
                          Unwrap(rec.url), as_millis(total_elapsed))
  IN  [rec EXCEPT !.pc = "submit_wait",
                  !.submit_url = Some(submission_url),
                  !.sent_at = now,
                  !.steps = @ \o <<"SUBMIT">>,
                  !.sent = @ \o
                    <<Outbound("SUBMIT", submission_url, 0,
                               get_request_values(rec.cookies, submission_url, now),
                               now)>>]

\* main.rs 116 and 134: the minimum wait of the algorithm of the run.
CliMinWait(ch) ==
  IF ch.rules.algorithm = "preact"
  THEN from_millis(wrapping_mul(ch.rules.difficulty, 80))
  ELSE from_millis(wrapping_mul(ch.rules.difficulty, 800))

CliMinWaitOverflows(ch) ==
  IF ch.rules.algorithm = "preact" THEN mul_overflows(ch.rules.difficulty, 80)
  ELSE mul_overflows(ch.rules.difficulty, 800)

\* main.rs 115-185: the arm of the algorithm returns its result; a time-based
\* arm sleeps the rest of its minimum wait, or panics computing it.
CliSolveEnd ==
  /\ cli.pc = "solving"
  /\ LET ch == Unwrap(cli.challenge)
         elapsed == Duration(now - cli.start_time)
     IN  IF ch.rules.algorithm \in {"preact", "metarefresh"}
         THEN \E overflow_checks \in BOOLEAN :
              IF overflow_checks /\ CliMinWaitOverflows(ch)
              THEN cli' = [cli EXCEPT !.pc = "panicked"]
              ELSE
              LET rec == [cli EXCEPT !.result =
                            Some(IF ch.rules.algorithm = "preact"
                                 THEN solve_preact_challenge(ch)
                                 ELSE solve_metarefresh_challenge(ch)),
                                     !.steps = @ \o <<"WAIT">>]
              IN  IF LessLimbs(elapsed, CliMinWait(ch))
                  THEN cli' = [rec EXCEPT !.pc = "sleeping",
                                          !.deadline =
                                             SumLimbs(Duration(now),
                                                      SubLimbs(CliMinWait(ch), elapsed))]
                  ELSE cli' = CliSubmit(rec)
         ELSE \E res \in solve_challenge_native(ch, num_threads) :
                IF res.ok
                THEN cli' = CliSubmit([cli EXCEPT !.result = Some(res.val),
                                                  !.steps = @ \o <<"WAIT">>])
                ELSE cli' = CliFinish(cli, Err(res.err))
  /\ UNCHANGED <<powvars, proxyvars, call>>

\* main.rs 123 and 141: tokio::time::sleep returns at or after its deadline.
CliSleepWake ==
  /\ cli.pc = "sleeping"
  /\ ~LessLimbs(Duration(now), cli.deadline)
  /\ cli' = CliSubmit(cli)
  /\ UNCHANGED <<powvars, proxyvars, call>>

\* main.rs 238-253: send().await of the SUBMIT returns.  On any status but
\* 302 the run awaits the text of the response; after a 302 the run ends,
\* or with --print-html sends the REPLAY.
CliSubmitSend(resp, io) ==
  /\ cli.pc = "submit_wait"
  /\ IF io = "send_err" THEN cli' = CliFinish(cli, Err("send"))
     ELSE LET rec == [cli EXCEPT !.submitted = Some(resp),
                                 !.cookies = CliStore(cli, resp,
                                                      Unwrap(cli.submit_url)),
                                 !.steps = @ \o <<"VERIFY">>]
          IN  IF resp.status # 302
              THEN cli' = [rec EXCEPT !.pc = "submit_body"]
              ELSE IF ~rec.print_html THEN cli' = CliFinish(rec, Ok(<<>>))
              ELSE cli' = [rec EXCEPT !.pc = "replay_wait",
                                      !.steps = @ \o <<"REPLAY">>,
                                      !.sent = @ \o
                                        <<Outbound("REPLAY", Unwrap(rec.url), 0,
                                            get_request_values(rec.cookies,
                                                               Unwrap(rec.url), now),
                                            now)>>]
  /\ UNCHANGED <<powvars, proxyvars, call>>

\* main.rs 243-246: text().await of a submission response that is not a 302
\* returns: the text is printed if it was read, and the run is an error.
CliSubmitBytes(io) ==
  /\ cli.pc = "submit_body"
  /\ io \in BytesOutcomes
  /\ cli' = CliFinish(cli, Err("Unexpected submission status"))
  /\ UNCHANGED <<powvars, proxyvars, call>>

\* main.rs 253-264: send().await of the REPLAY returns: the run awaits the
\* text of the response.
CliReplaySend(resp, io) ==
  /\ cli.pc = "replay_wait"
  /\ IF io = "send_err" THEN cli' = CliFinish(cli, Err("send"))
     ELSE cli' = [cli EXCEPT !.pc = "replay_body", !.replayed = Some(resp),
                             !.cookies = CliStore(cli, resp, Unwrap(cli.url))]
  /\ UNCHANGED <<powvars, proxyvars, call>>

\* main.rs 256-266: text().await of the REPLAY returns.  A status that is
\* not 2xx is an error whatever was read; otherwise the text is printed.
CliReplayBytes(io) ==
  /\ cli.pc = "replay_body"
  /\ LET resp == Unwrap(cli.replayed)
     IN  IF ~is_success(resp.status)
         THEN cli' = CliFinish(cli, Err("Unexpected status"))
         ELSE IF io = "body_err" THEN cli' = CliFinish(cli, Err("body"))
         ELSE cli' = CliFinish([cli EXCEPT !.stdout = Some(resp.body)], Ok(<<>>))
  /\ UNCHANGED <<powvars, proxyvars, call>>

\* Time passes while the run sleeps: the clock reaches the deadline.
CliElapse ==
  /\ cli.pc = "sleeping"
  /\ LessLimbs(Duration(now), cli.deadline)
  /\ DurationFits(cli.deadline)
  /\ now' = DurationTicks(cli.deadline)
  /\ UNCHANGED <<powvars, sched_threads, jars, jar_cookies, req, cli,
               call>>

\* Time passes, by dt ticks, while the solve or the sleep is under way.
CliTick(dt) ==
  /\ cli.pc \in {"solving", "sleeping"}
  /\ now + dt <= MaxTime
  /\ now' = now + dt
  /\ UNCHANGED <<powvars, sched_threads, jars, jar_cookies, req, cli,
               call>>

\* The decoded challenges the command-line solver is run on.
CliChallenges ==
  {AnubisChallenge(Some("id1"), Payload2, U64(2), "preact"),
   AnubisChallenge(Some("id1"), Payload2, U64(0), "preact"),
   AnubisChallenge(Some("id4"), Payload2, OverflowDifficulty, "preact"),
   AnubisChallenge(Some("id2"), Payload1, U64(1), "metarefresh"),
   AnubisChallenge(Some("id3"), Payload1, U64(1), "fast"),
   AnubisChallenge(Some("id3"), Payload1, U64(65), "slow"),
   AnubisChallenge(None, Payload1, U64(1), "fast"),
   AnubisChallenge(None, Payload1, U64(1), "")}

\* The challenge page that decodes to ch.
PageOf(ch) ==
  Body(TRUE,
       Some(TextJson(JsonDoc(
              Some(IF IsSome(ch.challenge.id)
                   THEN ChalObject(ch.challenge.id, Some(ch.challenge.random_data))
                   ELSE ChalString(ch.challenge.random_data)),
              Some(RulesJson(Some(JsonNumber(U64Itoa(ch.rules.difficulty))),
                             Some(ch.rules.algorithm)))))),
       VersionText)

\* The responses the upstream may give to the FETCH of the command-line solver.
CliFetchResponses ==
  {Resp(200, HtmlHeaders, PageOf(ch)) : ch \in CliChallenges}
    \cup { Resp(200, HopHeaders, PagePlain),
           Resp(503, HtmlHeaders, PageMention),
           Resp(200, HtmlHeaders, PageNull),
           Resp(200, HtmlHeaders, PageGarbage),
           Resp(200, HtmlHeaders, Body(TRUE, Some(TextEmpty), VersionText)),
           Resp(200, HtmlHeaders, SequencePage(Payload1, JsonNat(1), "fast")),
           Resp(401, HtmlHeaders, ChallengePage("id1", Payload2, JsonNat(2), "preact")) }

(***************************************************************************)
(* Calls of the library's functions (src/lib.rs) on their own: call holds  *)
(* the function last called, its arguments and what it returned.           *)
(***************************************************************************)
NoCall == [fn |-> "none", args |-> <<>>, out |-> None]

LibInit == call = NoCall

\* The algorithm strings a challenge page can carry: the three named ones,
\* "slow", the empty string and one the solver has never heard of.
Algorithms == {"preact", "metarefresh", "fast", "slow", "", "argon2id"}

LibChallenges ==
  {AnubisChallenge(id, p, d, alg) :
     id \in {None, Some("id1")}, p \in Payloads, d \in Difficulties,
     alg \in Algorithms}

\* solve_challenge(&challenge, None) with num_threads pool threads.
CallSolveChallenge(ch) ==
  /\ \E res \in solve_challenge(ch, num_threads) :
       call' = [fn |-> "solve_challenge", args |-> <<ch>>, out |-> res]
  /\ UNCHANGED <<powvars, proxyvars, cli>>

(***************************************************************************)
(* Specifications.                                                         *)
(***************************************************************************)
\* The search alone: one call of solve_challenge_native, no proxy request.
PowOnlyInit == PowInit /\ ProxyInit /\ CliInit /\ LibInit /\ sched_threads = 1

PowNext ==
  \/ \E ch \in PowInputs, cb \in BOOLEAN :
       NativeBegin(1, ch, cb) /\ UNCHANGED <<proxyvars, cli, call>>
  \/ \E k \in Workers : StartWorker(1, k) /\ UNCHANGED <<proxyvars, cli, call>>
  \/ \E k \in Workers : SkipWorker(1, k) /\ UNCHANGED <<proxyvars, cli, call>>
  \/ \E k \in Workers : LoadFlag(1, k) /\ UNCHANGED <<proxyvars, cli, call>>
  \/ \E k \in Workers : Leap(1, k) /\ UNCHANGED <<proxyvars, cli, call>>
  \/ \E k \in Workers : HashAttempt(1, k) /\ UNCHANGED <<proxyvars, cli, call>>
  \/ \E k \in Workers : SwapFlag(1, k) /\ UNCHANGED <<proxyvars, cli, call>>
  \/ \E k \in Workers : StoreNonce(1, k) /\ UNCHANGED <<proxyvars, cli, call>>
  \/ \E k \in Workers : ReturnSome(1, k) /\ UNCHANGED <<proxyvars, cli, call>>
  \/ NativeEnd(1) /\ UNCHANGED <<proxyvars, cli, call>>

SpecPow == PowOnlyInit /\ [][PowNext]_vars

\* The next step of the item of worker k: rayon starts or skips it, or the
\* thread that runs its closure executes the next statement.
WorkerStep(c, k) ==
  /\ \/ StartWorker(c, k) \/ SkipWorker(c, k) \/ LoadFlag(c, k)
     \/ Leap(c, k) \/ HashAttempt(c, k) \/ SwapFlag(c, k) \/ StoreNonce(c, k)
     \/ ReturnSome(c, k)
  /\ UNCHANGED <<proxyvars, cli, call>>

\* A step of the search that has begun: of one of its items or of the
\* caller that resumes once find_any has joined.
PowStep ==
  \/ \E k \in Workers : WorkerStep(1, k)
  \/ NativeEnd(1) /\ UNCHANGED <<proxyvars, cli, call>>

\* The search under fair scheduling: while some thread of the search can
\* take a step, one of them eventually does. Nothing forces two items to run
\* at the same time, and a pool of one thread that runs the items one after
\* the other is fair in this sense.
PowFairness == WF_vars(PowStep)

SpecPowFair == PowOnlyInit /\ [][PowNext]_vars /\ PowFairness

\* Two searches at the same time, as two requests of the proxy start them
\* (proxy.rs 170): each call runs its items on the one global rayon pool.
\* Call 1 searches Payload2 at difficulty 1, where the nonces 2 to 5 are
\* valid; call 2 searches Payload1 at difficulty 1, where the nonces 3 to 7
\* are valid, or at difficulty 65, where no nonce ever is.
ConcCalls == {1, 2}

ConcChallenges(c) ==
  IF c = 1 THEN {AnubisChallenge(None, Payload2, U64(1), "fast")}
  ELSE {AnubisChallenge(None, Payload1, U64(1), "fast"),
        AnubisChallenge(None, Payload1, U64(65), "fast")}

ConcNext ==
  \/ \E c \in ConcCalls :
     \E ch \in ConcChallenges(c) :
       NativeBegin(c, ch, FALSE) /\ UNCHANGED <<proxyvars, cli, call>>
  \/ \E c \in ConcCalls : \E k \in Workers :
       StartWorker(c, k) /\ UNCHANGED <<proxyvars, cli, call>>
  \/ \E c \in ConcCalls : \E k \in Workers :
       SkipWorker(c, k) /\ UNCHANGED <<proxyvars, cli, call>>
  \/ \E c \in ConcCalls : \E k \in Workers :
       LoadFlag(c, k) /\ UNCHANGED <<proxyvars, cli, call>>
  \/ \E c \in ConcCalls : \E k \in Workers :
       Leap(c, k) /\ UNCHANGED <<proxyvars, cli, call>>
  \/ \E c \in ConcCalls : \E k \in Workers :
       HashAttempt(c, k) /\ UNCHANGED <<proxyvars, cli, call>>
  \/ \E c \in ConcCalls : \E k \in Workers :
       SwapFlag(c, k) /\ UNCHANGED <<proxyvars, cli, call>>
  \/ \E c \in ConcCalls : \E k \in Workers :
       StoreNonce(c, k) /\ UNCHANGED <<proxyvars, cli, call>>
  \/ \E c \in ConcCalls : \E k \in Workers :
       ReturnSome(c, k) /\ UNCHANGED <<proxyvars, cli, call>>
  \/ \E c \in ConcCalls : NativeEnd(c) /\ UNCHANGED <<proxyvars, cli, call>>

\* The pool the two searches share has at most one thread for each of them.
ConcInit == PowOnlyInit /\ num_threads <= Cardinality(ConcCalls)

SpecConc == ConcInit /\ [][ConcNext]_vars

ProxyOnlyInit == PowInit /\ ProxyInit /\ CliInit /\ LibInit

\* One run, of the proxy's orchestrator or of the command-line solver,
\* against every upstream response, with the clock advancing while the
\* solve or the sleep is under way.
TickSteps == {53, (800 * TicksPerMs) - 1}

RunNext ==
  \/ \E path \in InboundPaths, query \in InboundQueries :
       cli.pc = "new" /\ HandleRequest(1, path, query)
  \/ \E resp \in FetchResponses, io \in SendOutcomes : FetchSend(1, resp, io)
  \/ \E io \in BytesOutcomes : FetchBytes(1, io)
  \/ SolveEnd(1)
  \/ SleepWake(1)
  \/ \E resp \in SubmitResponses, io \in SendOutcomes : SubmitSend(1, resp, io)
  \/ \E io \in BytesOutcomes : SubmitBytes(1, io)
  \/ ReplayRequest(1)
  \/ \E resp \in ReplayResponses, io \in SendOutcomes : ReplaySend(1, resp, io)
  \/ \E io \in BytesOutcomes : ReplayBytes(1, io)
  \/ Elapse
  \/ \E dt \in TickSteps : Tick(dt)
  \/ \E print_html \in BOOLEAN : req[1].pc = "new" /\ CliStart(print_html)
  \/ \E resp \in CliFetchResponses, io \in SendOutcomes : CliFetchSend(resp, io)
  \/ \E io \in BytesOutcomes : CliFetchBytes(io)
  \/ CliSolveEnd
  \/ CliSleepWake
  \/ \E resp \in SubmitResponses, io \in SendOutcomes : CliSubmitSend(resp, io)
  \/ \E io \in BytesOutcomes : CliSubmitBytes(io)
  \/ \E resp \in ReplayResponses, io \in SendOutcomes : CliReplaySend(resp, io)
  \/ \E io \in BytesOutcomes : CliReplayBytes(io)
  \/ CliElapse
  \/ \E dt \in TickSteps : CliTick(dt)

SpecRun == ProxyOnlyInit /\ [][RunNext]_vars

\* The proxy: MaxRequests concurrent requests against the upstream, each
\* through a passthrough or a proof-of-work challenge.
ProxyFetchResponses ==
  { Resp(404, RepeatHeaders, PagePlain),
    Resp(200, CookieHeaders(DeleteCookie), PagePlain),
    Resp(200, CookieHeaders("test=1; Path=/"), LegacyPage(Payload1, JsonNat(1), None)) }

ProxySubmitResponses ==
  { Resp(302, CookieHeaders(AuthCookie), PagePlain),
    Resp(302, CookieHeaders(ShortCookie), PagePlain),
    Resp(302, CookieHeaders(UnscopedCookie), PagePlain),
    Resp(403, HopHeaders, PagePlain) }

ProxyReplayResponses == { Resp(200, HopHeaders, PagePlain) }

ProxyManyInit == PowInit /\ ProxyInit /\ CliInit /\ LibInit /\ num_threads = 1

\* The paths of the concurrent requests: the health check and two hosts.
ProxyPaths == {<<"health">>, <<"proxy", "h1", "p">>, <<"proxy", "h2", "p">>}

ProxyNext ==
  \/ \E r \in Reqs, path \in ProxyPaths : HandleRequest(r, path, None)
  \/ \E r \in Reqs, resp \in ProxyFetchResponses : FetchSend(r, resp, "ok")
  \/ \E r \in Reqs : FetchBytes(r, "ok")
  \/ \E r \in Reqs : SolveEnd(r)
  \/ \E r \in Reqs, resp \in ProxySubmitResponses : SubmitSend(r, resp, "ok")
  \/ \E r \in Reqs : SubmitBytes(r, "ok")
  \/ \E r \in Reqs : ReplayRequest(r)
  \/ \E r \in Reqs, resp \in ProxyReplayResponses : ReplaySend(r, resp, "ok")
  \/ \E r \in Reqs : ReplayBytes(r, "ok")
  \/ JarElapse

SpecProxy == ProxyManyInit /\ [][ProxyNext]_vars

\* The library functions alone: each step is one call.
\* The members a challenge object is given in the texts decoded on their own:
\* with and without id and randomData, an id that is null, members the
\* decoder does not know before and after, and randomData given twice.
LibMembers ==
  {before \o id \o rd \o after :
     before \in {<<>>, <<<<"issuedAt", JsonNat(1)>>>>},
     id \in {<<>>, <<<<"id", JsonString("id1")>>>>, <<<<"id", JsonNull>>>>},
     rd \in {<<>>} \cup {<<<<"randomData", JsonString(p)>>>> : p \in Payloads},
     after \in {<<>>, <<<<"metadata", JsonString("x")>>>>}}
    \cup {<<<<"randomData", JsonString(Payload2)>>,
            <<"randomData", JsonString(Payload1)>>>>}

\* Rules in the sequence form, [difficulty, algorithm]: both elements, the
\* difficulty alone, no element, an algorithm that is null, a difficulty
\* that is a string, and a third element.
LibSeqRules ==
  {JsonArray(<<JsonNat(1), JsonString("preact")>>),
   JsonArray(<<JsonNat(2)>>),
   JsonArray(<<>>),
   JsonArray(<<JsonNat(1), JsonNull>>),
   JsonArray(<<JsonString(<<49>>), JsonString("fast")>>),
   JsonArray(<<JsonNat(1), JsonString("fast"), JsonNat(3)>>)}

\* Rules that do not decode, or decode at the ends of usize: no difficulty,
\* -1, -0, 2^64, a string, usize::MAX, a difficulty given twice, an
\* algorithm that is null, and rules that are no object: null and true.
LibRules ==
  {RulesJson(None, None),
   RulesJson(Some(JsonNumber(<<45, 49>>)), None),
   RulesJson(Some(JsonNumber(<<45, 48>>)), None),
   RulesJson(Some(JsonNumber(TwoTo64High \o ItoaNat(TwoTo64Low))), None),
   RulesJson(Some(JsonString(<<49>>)), None),
   RulesJson(Some(JsonNumber(U64Itoa(usize_MAX))), Some("preact")),
   JsonObject(<<<<"difficulty", JsonNat(1)>>, <<"difficulty", JsonNat(2)>>>>),
   JsonObject(<<<<"weight", JsonNat(7)>>, <<"difficulty", JsonNat(1)>>,
                <<"algorithm", JsonNull>>>>),
   JsonNull, JsonBool(TRUE)}

\* The texts of the #anubis_challenge element decoded on their own: the two
\* shapes of the challenge with rules that decode; documents whose rules do
\* not, with the rules before and after the challenge; documents without
\* a member, with a member given twice, and with a member the decoder does
\* not know; the documents in the sequence form, [challenge, rules], with
\* none, one, two and three elements; the texts that are neither an object
\* nor an array; and the texts that are not JSON.
LibTexts ==
  {TextJson(JsonDoc(Some(c), Some(RulesJson(Some(JsonNat(d)), alg)))) :
     c \in {ChalString(p) : p \in Payloads \cup {<<>>}}
            \cup {ChalMembers(m) : m \in LibMembers},
     d \in {1, 2}, alg \in {None, Some("preact")}}
    \cup {TextJson(JsonObject(members)) :
            members \in
              UNION {{<<<<"rules", r>>>>,
                      <<<<"rules", r>>, <<"challenge", c>>>>,
                      <<<<"challenge", c>>, <<"rules", r>>>>} :
                       r \in LibRules \cup LibSeqRules
                              \cup {RulesJson(Some(JsonNat(1)), None)},
                       c \in {ChalString(Payload1),
                              ChalObject(Some("id1"), None), JsonNull,
                              JsonArray(<<JsonString(Payload1)>>)}}}
    \cup {TextJson(JsonArray(<<c, r>>)) :
            c \in {ChalString(Payload1), ChalObject(Some("id1"), Some(Payload2)),
                   ChalMembers(<<<<"id", JsonNull>>,
                                 <<"randomData", JsonString(Payload1)>>>>),
                   ChalObject(Some("id1"), None), JsonNat(7)},
            r \in LibSeqRules \cup {RulesJson(Some(JsonNat(1)), Some("fast")),
                                    RulesJson(None, None), JsonNull}}
    \cup {TextJson(JsonArray(<<>>)),
          TextJson(JsonArray(<<ChalString(Payload1)>>)),
          TextJson(JsonArray(<<JsonNull>>)),
          TextJson(JsonArray(<<ChalString(Payload1),
                               RulesJson(Some(JsonNat(1)), None), JsonNull>>)),
          TextTrailing(JsonArray(<<ChalString(Payload1),
                                   JsonArray(<<JsonNat(1)>>)>>)),
          TextJson(JsonBool(FALSE))}
    \cup {TextJson(JsonObject(<<<<"challenge", ChalString(Payload1)>>>>)),
          TextJson(JsonObject(<<<<"challenge", ChalString(Payload1)>>,
                                <<"challenge", ChalString(Payload2)>>,
                                <<"rules", RulesJson(Some(JsonNat(1)), None)>>>>)),
          TextJson(JsonObject(<<<<"version", JsonNat(1)>>,
                                <<"challenge", ChalString(Payload1)>>,
                                <<"rules", RulesJson(Some(JsonNat(1)), None)>>>>)),
          TextJson(JsonObject(<<>>)),
          TextJson(JsonNat(1)), TextJson(JsonString(Payload1)),
          TextGarbage, TextNull, TextEmpty, TextTruncated,
          TextTrailing(JsonNull), TextTrailing(JsonObject(<<>>)),
          TextTrailing(JsonDoc(Some(ChalString(Payload1)),
                               Some(RulesJson(Some(JsonNat(1)), None))))}

\* The text of an #anubis_version element that is not a JSON string.
VersionGarbage == Some([kind |-> "garbage", s |-> ""])

\* The HTML bodies parsed on their own.  A body that has the
\* #anubis_challenge element contains the text "anubis_challenge".
LibElements ==
  {TextEmpty, TextNull, TextGarbage}
    \cup {TextJson(JsonDoc(Some(c), Some(RulesJson(Some(JsonNat(1)), Some("fast"))))) :
            c \in {ChalString(Payload1),
                   ChalObject(Some("id1"), Some(Payload2)),
                   ChalObject(Some("id1"), None)}}
    \cup {TextJson(JsonArray(<<ChalString(Payload1),
                               JsonArray(<<JsonNat(1), JsonString("fast")>>)>>)),
          TextJson(JsonArray(<<ChalObject(Some("id1"), Some(Payload2)),
                               RulesJson(Some(JsonNat(2)), Some("preact"))>>)),
          TextJson(JsonArray(<<ChalString(Payload1)>>))}

LibBodies ==
  {Body(marker, elem, version) :
     marker \in BOOLEAN,
     elem \in {None} \cup {Some(e) : e \in LibElements},
     version \in {None, VersionText, VersionGarbage}}
    \ {Body(FALSE, Some(e), v) :
         e \in LibElements, v \in {None, VersionText, VersionGarbage}}

\* parse_challenge_from_html(&html).
CallParse(html) ==
  /\ call' = [fn |-> "parse_challenge_from_html", args |-> <<html>>,
              out |-> parse_challenge_from_html(html)]
  /\ UNCHANGED <<powvars, proxyvars, cli>>

\* serde_json::from_str::<AnubisChallenge>(&challenge_json).
CallFromStr(text) ==
  /\ call' = [fn |-> "from_str", args |-> <<text>>,
              out |-> from_str_AnubisChallenge(text)]
  /\ UNCHANGED <<powvars, proxyvars, cli>>

\* The difficulties min_wait is called with: small ones, the last whose
\* product fits and the first whose product does not, for each factor, and
\* the largest value of the field.
MinWaitDifficulties ==
  {U64(0), U64(1), U64(3), U64(52),
   [OverflowDifficulty800 EXCEPT ![1] = @ - 1], OverflowDifficulty800,
   [OverflowDifficulty EXCEPT ![1] = @ - 1], OverflowDifficulty, usize_MAX}

MinWaitChallenges ==
  {AnubisChallenge(None, Payload1, d, alg) :
     d \in MinWaitDifficulties, alg \in Algorithms}

\* challenge.min_wait(): the value a build without overflow checks returns,
\* or the panic of a build with overflow checks when the product overflows.
CallMinWait(ch) ==
  /\ \E panicked \in {FALSE, min_wait_overflows(ch)} :
       call' = [fn |-> "min_wait", args |-> <<ch>>,
                out |-> [panicked |-> panicked,
                         val |-> IF panicked THEN None ELSE min_wait(ch)]]
  /\ UNCHANGED <<powvars, proxyvars, cli>>

LibOnlyInit == PowInit /\ ProxyInit /\ CliInit /\ LibInit /\ sched_threads = 1

LibNext ==
  \/ \E ch \in LibChallenges : CallSolveChallenge(ch)
  \/ \E text \in LibTexts : CallFromStr(text)
  \/ \E html \in LibBodies : CallParse(html)
  \/ \E ch \in MinWaitChallenges : CallMinWait(ch)

SpecLib == LibOnlyInit /\ [][LibNext]_vars

\* A caller solves a challenge and builds the submission URL from the
\* result, as solve_and_retry does (proxy.rs 170-192): for the challenge it
\* solved, or for one that differs from it in the algorithm string only.
SubmitSolve(ch) ==
  /\ call = NoCall
  /\ CallSolveChallenge(ch)

SubmitBuild(alg) ==
  /\ call.fn = "solve_challenge"
  /\ call.out.ok
  /\ LET solved == call.args[1]
         ch == [solved EXCEPT !.rules.algorithm = alg]
         result == call.out.val
     IN  call' = [fn |-> "build_submission_url",
                  args |-> <<ch, result, solved>>,
                  out |-> build_submission_url("https", "h1", ch, result,
                                               TargetUrl("h1", <<"p">>, None), 37)]
  /\ UNCHANGED <<powvars, proxyvars, cli>>

SubmitNext ==
  \/ \E ch \in LibChallenges : SubmitSolve(ch)
  \/ \E alg \in Algorithms : SubmitBuild(alg)

SpecSubmit == LibOnlyInit /\ [][SubmitNext]_vars

\* The two orchestrators on the same target and the same upstream: the
\* proxy serves GET /proxy/h1/p, then the command-line solver is run on
\* https://h1/p and the upstream answers it as it answered the proxy.
EquivFetchResponses ==
  { Resp(200, HopHeaders, PagePlain),
    Resp(200, HtmlHeaders, LegacyPage(Payload1, JsonNat(1), None)),
    Resp(200, HtmlHeaders, SequencePage(Payload1, JsonNat(1), "fast")),
    Resp(200, HtmlHeaders, ChallengePage("id1", Payload2, JsonNat(2), "preact")),
    Resp(200, HtmlHeaders, ChallengePage("id2", Payload1, JsonNat(1), "metarefresh")),
    Resp(200, HtmlHeaders, ChallengePage("id3", Payload1, JsonNat(1), "fast")),
    Resp(200, HtmlHeaders, ChallengePage("id3", Payload1, JsonNat(65), "slow")),
    Resp(200, HtmlHeaders, ChallengePage("id5", Payload1, JsonNat(1), "argon2id")) }

\* The upstream's answer to the command-line solver: the answer the proxy
\* got to the same request, or any answer if the proxy did not send it.
SameAnswer(got, responses) == IF IsSome(got) THEN {Unwrap(got)} ELSE responses

ProxyEnded == req[1].pc \in {"done", "panicked"}

EquivNext ==
  \/ HandleRequest(1, <<"proxy", "h1", "p">>, None)
  \/ \E resp \in EquivFetchResponses : FetchSend(1, resp, "ok")
  \/ FetchBytes(1, "ok")
  \/ SolveEnd(1)
  \/ SleepWake(1)
  \/ \E resp \in SubmitResponses : SubmitSend(1, resp, "ok")
  \/ SubmitBytes(1, "ok")
  \/ ReplayRequest(1)
  \/ \E resp \in ReplayResponses : ReplaySend(1, resp, "ok")
  \/ ReplayBytes(1, "ok")
  \/ Elapse
  \/ \E print_html \in BOOLEAN : ProxyEnded /\ CliStart(print_html)
  \/ \E resp \in SameAnswer(req[1].fetched, EquivFetchResponses) :
       CliFetchSend(resp, "ok")
  \/ CliFetchBytes("ok")
  \/ CliSolveEnd
  \/ CliSleepWake
  \/ \E resp \in SameAnswer(req[1].submitted, SubmitResponses) :
       CliSubmitSend(resp, "ok")
  \/ CliSubmitBytes("ok")
  \/ \E resp \in SameAnswer(req[1].replayed, ReplayResponses) :
       CliReplaySend(resp, "ok")
  \/ CliReplayBytes("ok")
  \/ CliElapse

SpecEquiv == ProxyOnlyInit /\ [][EquivNext]_vars

(***************************************************************************)
(* Properties.                                                             *)
(***************************************************************************)
IsPrefix(s, t) == Len(s) <= Len(t) /\ \A i \in 1..Len(s) : s[i] = t[i]
Last(s) == s[Len(s)]

\* The difficulty predicate in the words of the specification: the first
\* floor(d/2) bytes are zero and, if d is odd, so is the next high nibble.
LeadingZeroNibbles(digest, difficulty) ==
  /\ U64Fits(difficulty)
  /\ LET d == U64Value(difficulty)
     IN  /\ (d \div 2) <= Len(digest)
         /\ \A i \in 1..(d \div 2) : digest[i] = 0
         /\ ((d % 2) = 1) => /\ (d \div 2) + 1 <= Len(digest)
                             /\ (digest[(d \div 2) + 1] \div 16) = 0

\* The nonces of the low window that satisfy the difficulty of a challenge.
AllValidNonces(ch) ==
  {n \in LowNonces :
     LeadingZeroNibbles(PowDigest(ch.challenge.random_data, n), ch.rules.difficulty)}

\* C1: whenever solve_challenge_native returns Ok, with any number of
\* workers and under every interleaving, the result carries a nonce n such
\* that SHA-256(payload || decimal(n)) has the leading zero nibbles the
\* difficulty asks for, and its hash field is the hex encoding of that digest.
C1_ReturnedNonceIsValid ==
  \A c \in Calls :
    (IsSome(pow_ret[c]) /\ Unwrap(pow_ret[c]).ok) =>
      LET res == Unwrap(pow_ret[c]).val
          ch == Unwrap(pow_ch[c])
      IN  /\ IsSome(res.nonce)
          /\ InWindow(Unwrap(res.nonce))
          /\ LET digest == PowDigest(ch.challenge.random_data, Unwrap(res.nonce))
             IN  /\ LeadingZeroNibbles(digest, ch.rules.difficulty)
                 /\ res.hash = HexEncode(digest)

\* C1 happens: several workers, an odd difficulty, and the call returned a
\* valid nonce that is not the least valid one.
C1_Witness ==
  /\ num_threads >= 2
  /\ IsSome(pow_ret[1]) /\ Unwrap(pow_ret[1]).ok
  /\ (U64Value(Unwrap(pow_ch[1]).rules.difficulty) % 2) = 1
  /\ Unwrap(Unwrap(pow_ret[1]).val.nonce) # Min(AllValidNonces(Unwrap(pow_ch[1])))

\* The state part of C2: one winner of the swap at most, one store to the
\* slot at most, and only the winner stores or returns a result.
SingleWinner ==
  \A c \in Calls :
    /\ Cardinality(swap_won[c]) <= 1
    /\ slot_writes[c] <= 1
    /\ \A k \in Workers :
         /\ wpc[c][k] \in {"store", "ret"} => k \in swap_won[c]
         /\ IsSome(wret[c][k]) => k \in swap_won[c]
    /\ swap_won[c] # {} => found_solution[c]

\* C2: in one search, under every interleaving, at most one worker sees the
\* stop flag go from unset to set; only that worker writes the winning-nonce
\* slot and only it returns a result; the slot is written at most once and
\* the flag, once set, is never cleared.
C2_SingleWinner ==
  /\ []SingleWinner
  /\ [][\A c \in Calls :
          /\ found_solution[c] => found_solution'[c]
          /\ slot_writes'[c] > slot_writes[c] =>
               \E k \in swap_won[c] : wpc[c][k] = "store" /\ wpc'[c][k] = "ret"]_vars

\* C2 happens: one worker won the swap and returned its result while another
\* worker, which also found a valid nonce, stands at its own swap.
C2_Witness ==
  \E k, j \in Workers :
    /\ k # j
    /\ swap_won[1] = {k}
    /\ IsSome(wret[1][k])
    /\ wpc[1][j] = "swap"

\* The state part of C3: every handle a request holds is the jar its host
\* maps to, and two hosts never map to the same jar.
RegistryOneStorePerHost ==
  /\ \A r \in Reqs :
       req[r].jar # 0 =>
         /\ req[r].host \in DOMAIN jars
         /\ jars[req[r].host] = req[r].jar
         /\ \A i \in DOMAIN req[r].sent : req[r].sent[i].jar = req[r].jar
  /\ \A h1, h2 \in DOMAIN jars : h1 # h2 => jars[h1] # jars[h2]
  /\ \A h \in DOMAIN jars : jars[h] \in 1..Len(jar_cookies)

\* The responses whose head a step has handed to request q, each with the
\* URL of its request.
Arrived(q) ==
  (IF ~IsSome(req[q].fetched) /\ IsSome(req'[q].fetched)
   THEN {<<Unwrap(req'[q].fetched), Unwrap(req'[q].url)>>} ELSE {})
  \cup
  (IF ~IsSome(req[q].submitted) /\ IsSome(req'[q].submitted)
   THEN {<<Unwrap(req'[q].submitted), Unwrap(req'[q].submit_url)>>} ELSE {})
  \cup
  (IF ~IsSome(req[q].replayed) /\ IsSome(req'[q].replayed)
   THEN {<<Unwrap(req'[q].replayed), Unwrap(req'[q].url)>>} ELSE {})

\* A Set-Cookie header of the response names the key of cookie c.
Renames(resp, url, c) ==
  \E i \in 1..Len(SetCookies(resp.headers)) :
    LET raw == Cookie_parse(Utf8(SetCookies(resp.headers)[i]))
    IN  /\ raw.ok
        /\ try_from_raw_cookie(raw.val, url, now).ok
        /\ SameKey(try_from_raw_cookie(raw.val, url, now).val, c)

\* A step leaves every cookie of every jar where it is, but for the cookies
\* that a response to a request through the jar sets again.
CookiesStay ==
  \A j \in 1..Len(jar_cookies) : \A c \in jar_cookies[j] :
    \/ c \in jar_cookies'[j]
    \/ \E q \in Reqs : \E got \in Arrived(q) :
         req[q].jar = j /\ Renames(got[1], got[2], c)

\* C3: after any interleaving of get_or_create calls of concurrent requests
\* the registry maps each requested host to one cookie store: every call
\* for the host returned that store, two hosts never share a store, and no
\* entry is removed or replaced: a step takes no jar away and empties none.
C3_OneStorePerHost ==
  /\ []RegistryOneStorePerHost
  /\ [][/\ \A h \in DOMAIN jars : h \in DOMAIN jars' /\ jars'[h] = jars[h]
        /\ Len(jar_cookies') >= Len(jar_cookies)
        /\ CookiesStay]_vars

\* C3 happens: two requests in flight for one host hold the same jar; the
\* second took its handle before any cookie was stored and sees the cookie
\* the first has stored since.
C3_Witness ==
  /\ req[1].jar # 0 /\ req[2].jar # 0
  /\ req[1].host = req[2].host
  /\ req[2].pc = "fetch_wait" /\ req[2].sent[1].cookies = {}
  /\ jar_cookies[req[2].jar] # {}
  /\ Cardinality(DOMAIN jars) = 1

OrchestratorSteps ==
  <<"FETCH", "EXTRACT", "SOLVE", "WAIT", "SUBMIT", "VERIFY", "REPLAY">>

IsOutboundStep(step) == step \in {"FETCH", "SUBMIT", "REPLAY"}

\* The state part of C4 for one run.
LinearRun(rec) ==
  /\ IsPrefix(rec.steps, OrchestratorSteps)
  /\ [i \in DOMAIN rec.sent |-> rec.sent[i].step]
       = SelectSeq(rec.steps, IsOutboundStep)
  /\ rec.pc # "new" /\ rec.host # "" => Len(rec.steps) >= 1
  /\ Len(rec.steps) = 7 =>
       IsSome(rec.submitted) /\ Unwrap(rec.submitted).status = 302
  /\ (rec.pc = "done" /\ IsSome(rec.replayed)) =>
       rec.ret \in {Some(Ok(Unwrap(rec.replayed))), Some(Err("body"))}

\* C4: the orchestrator is linear and never retries: the steps of a run are
\* a prefix of FETCH, EXTRACT, SOLVE, WAIT, SUBMIT, VERIFY, REPLAY, with
\* REPLAY only after a 302; a run that has ended takes no further step, and
\* a REPLAY response that holds a challenge again is returned as it is.
C4_LinearNoRetry ==
  /\ [](\A r \in Reqs : LinearRun(req[r]))
  /\ [][\A r \in Reqs : req[r].pc = "done" => req'[r] = req[r]]_vars

\* C4 happens: a run took all seven steps and its REPLAY response, a
\* challenge page, is what it returned.
C4_Witness ==
  \E r \in Reqs :
    /\ req[r].pc = "done"
    /\ req[r].steps = OrchestratorSteps
    /\ IsSome(req[r].replayed)
    /\ IsSome(parse_challenge_from_html(Unwrap(req[r].replayed).body))
    /\ req[r].ret = Some(Ok(Unwrap(req[r].replayed)))

\* What parse_challenge_from_html returns for the bodies of the FETCH
\* responses, tabulated.
ExtractionTable ==
  [body \in {resp.body : resp \in FetchResponses} |->
     parse_challenge_from_html(body)]

\* C5: when the fetched body yields no challenge the orchestrator returns
\* the upstream response with its status, headers and body unchanged, for
\* every status, with no solve, no submission and no further request (once
\* the body has been read without a transport error).
C5_Passthrough ==
  \A r \in Reqs :
    (/\ IsSome(req[r].fetched)
     /\ req[r].pc # "fetch_body"
     /\ ExtractionTable[Unwrap(req[r].fetched).body] = None
     /\ req[r].ret # Some(Err("body"))) =>
      /\ req[r].pc = "done"
      /\ req[r].ret = Some(Ok(Unwrap(req[r].fetched)))
      /\ Len(req[r].sent) = 1
      /\ req[r].result = None
      /\ \A i \in DOMAIN req[r].steps : req[r].steps[i] \in {"FETCH", "EXTRACT"}

\* C5 happens: an upstream 404 that sets a cookie and holds no challenge
\* was returned as it came.
C5_Witness ==
  \E r \in Reqs :
    /\ req[r].pc = "done"
    /\ IsSome(req[r].fetched)
    /\ Unwrap(req[r].fetched).status = 404
    /\ ~Unwrap(req[r].fetched).body.marker
    /\ req[r].ret = Some(Ok(Unwrap(req[r].fetched)))

\* The body carries the marker and the element, and the text of the element
\* does not decode to a challenge.
DecodeFails(body) ==
  /\ body.marker
  /\ IsSome(body.elem)
  /\ Unwrap(body.elem).kind # "empty"
  /\ ~IsNullText(Unwrap(body.elem))
  /\ ~from_str_AnubisChallenge(Unwrap(body.elem)).ok

\* C6: when the fetched body carries the marker and the payload element but
\* the payload fails to decode, the run ends in an error surfaced to the
\* caller, never in the challenge page returned as a normal response.
C6_MalformedChallengeIsError ==
  \A r \in Reqs :
    (/\ req[r].pc = "done"
     /\ IsSome(req[r].fetched)
     /\ DecodeFails(Unwrap(req[r].fetched).body)) =>
      /\ IsSome(req[r].ret)
      /\ ~Unwrap(req[r].ret).ok

\* The minimum wait of the specification, in milliseconds: the product, in
\* full (five limbs).
MinWaitMs(ch) ==
  IF ch.rules.algorithm = "preact" THEN MulLimbs(ch.rules.difficulty, 80)
  ELSE IF ch.rules.algorithm = "metarefresh" THEN MulLimbs(ch.rules.difficulty, 800)
  ELSE MulLimbs(ch.rules.difficulty, 0)

\* A number of milliseconds below 2^31 is at least the wait w.
AtLeast(ms, w) ==
  /\ w[3] = 0 /\ w[4] = 0 /\ w[5] = 0 /\ w[2] < Limb \div 2
  /\ ms >= w[1] + (Limb * w[2])

\* The number written in decimal digits from position i of s.
RECURSIVE DecimalAt(_, _, _)
DecimalAt(s, i, acc) ==
  IF i <= Len(s) /\ s[i] \in 48..57
  THEN DecimalAt(s, i + 1, (10 * acc) + (s[i] - 48))
  ELSE acc

\* The elapsedTime parameter of a submission URL.
ElapsedParam(url) ==
  LET key == AmpElapsedTime
      i == CHOOSE j \in 1..(Len(url) - Len(key) + 1) :
             SubSeq(url, j, j + Len(key) - 1) = key
  IN  DecimalAt(url, i + Len(key), 0)

\* C7: for a preact or metarefresh challenge of difficulty d, SUBMIT is not
\* issued before d x 80 ms (d x 800 ms) have passed since the start of
\* SOLVE, however fast the solve was, and the elapsedTime of the submission
\* URL is at least that wait in milliseconds.
C7_MinimumWait ==
  /\ \A r \in Reqs : \A i \in DOMAIN req[r].sent :
       req[r].sent[i].step = "SUBMIT" =>
         LET ch == Unwrap(req[r].parsed).challenge
         IN  /\ AtLeast(as_millis(Duration(req[r].sent[i].at - req[r].start_time)),
                         MinWaitMs(ch))
             /\ AtLeast(ElapsedParam(req[r].sent[i].url), MinWaitMs(ch))
  /\ cli.pc = "submit_wait" =>
       LET ch == Unwrap(cli.challenge)
       IN  /\ AtLeast(as_millis(Duration(cli.sent_at - cli.start_time)), MinWaitMs(ch))
           /\ AtLeast(ElapsedParam(Unwrap(cli.submit_url)), MinWaitMs(ch))

\* C8: when the submission response has a status other than 302 the run
\* ends without error and returns that response unchanged; it sends no
\* REPLAY and does not submit again (once the body of the response has been
\* read without a transport error).
C8_NonRedirectReturned ==
  \A r \in Reqs :
    (/\ IsSome(req[r].submitted)
     /\ req[r].pc # "submit_body"
     /\ Unwrap(req[r].submitted).status # 302
     /\ req[r].ret # Some(Err("body"))) =>
      /\ req[r].pc = "done"
      /\ req[r].ret = Some(Ok(Unwrap(req[r].submitted)))
      /\ req[r].replayed = None
      /\ [i \in DOMAIN req[r].sent |-> req[r].sent[i].step] = <<"FETCH", "SUBMIT">>

\* C8 happens: a submission answered 403 is what the run returned.
C8_Witness ==
  \E r \in Reqs :
    /\ req[r].pc = "done"
    /\ IsSome(req[r].submitted)
    /\ Unwrap(req[r].submitted).status = 403
    /\ req[r].ret = Some(Ok(Unwrap(req[r].submitted)))

\* The session credential of a run: the cookies of its 302 submission
\* response that a jar accepts, those that are well formed, whose Domain
\* attribute covers the host and that are not expired when they arrive.
Credential(rec) ==
  IF IsSome(rec.submitted) /\ Unwrap(rec.submitted).status = 302
  THEN {c \in store_response_cookies({}, SetCookies(Unwrap(rec.submitted).headers),
                                     Unwrap(rec.submit_url), rec.submitted_at) :
          ~is_expired(c, rec.submitted_at)}
  ELSE {}

\* The <<name, value>> pairs a request carries for a set of cookies.
Pairs(cookies) == {<<c.name, c.value>> : c \in cookies}

\* The state part of C9 as the claim has it.
CredentialKept ==
  \A r \in Reqs :
    /\ \A i \in DOMAIN req[r].sent :
         /\ req[r].sent[i].jar = jars[req[r].host]
         /\ req[r].sent[i].step = "REPLAY" =>
              Pairs(Credential(req[r])) \subseteq req[r].sent[i].cookies
    /\ (req[r].pc = "done" /\ IsSome(req[r].replayed)) =>
         req[r].ret = Some(Ok(Unwrap(req[r].replayed)))

\* C9: after a submission answered 302 that sets a credential for host h,
\* the REPLAY of the run goes through the same store and carries the
\* credential, its response is the result of the run, and every later
\* request to h goes through that store and carries the credential.
C9_CredentialReused ==
  /\ []CredentialKept
  /\ [][\A q, r \in Reqs :
          (/\ Len(req'[q].sent) > Len(req[q].sent)
           /\ req'[q].host = req'[r].host) =>
            /\ Last(req'[q].sent).jar = req'[r].jar
            /\ Pairs(Credential(req[r])) \subseteq Last(req'[q].sent).cookies]_vars

\* The cookie goes with a request for url sent at time at.
InScope(c, url, at) == ~is_expired(c, at) /\ cookie_matches(c, url)

\* The state part of the amended C9.
CredentialInScopeKept ==
  \A r \in Reqs :
    /\ \A i \in DOMAIN req[r].sent : req[r].sent[i].jar = jars[req[r].host]
    /\ (req[r].pc = "done" /\ IsSome(req[r].replayed)) =>
         req[r].ret = Some(Ok(Unwrap(req[r].replayed)))

\* C9, amended: after a submission answered 302 that sets a credential for
\* host h, the store of h holds every cookie of the credential that is well
\* formed, whose Domain attribute covers h and that is not expired; the
\* REPLAY of the run and every later request to h go through that store and
\* carry each of these cookies that the store still holds, that has not
\* expired and whose domain, path and Secure attribute cover the URL of the
\* request; the response to the REPLAY is the result of the run; and the
\* store holds a cookie until a response to a request through the store
\* sets a cookie of the same name, domain and path.
C9_CredentialReusedInScope ==
  /\ []CredentialInScopeKept
  /\ [][/\ \A r \in Reqs :
             (~IsSome(req[r].submitted) /\ IsSome(req'[r].submitted)) =>
               Credential(req'[r]) \subseteq jar_cookies'[req'[r].jar]
        /\ \A q, r \in Reqs :
             (/\ Len(req'[q].sent) > Len(req[q].sent)
              /\ req'[q].host = req'[r].host) =>
               /\ Last(req'[q].sent).jar = req'[r].jar
               /\ \A c \in Credential(req[r]) :
                    (/\ c \in jar_cookies'[req'[r].jar]
                     /\ InScope(c, Last(req'[q].sent).url, Last(req'[q].sent).at)) =>
                      <<c.name, c.value>> \in Last(req'[q].sent).cookies
        /\ CookiesStay]_vars

\* C9 happens: a run for host h1 ended with its REPLAY response after a 302
\* that set the credential, its REPLAY carried the credential, and the
\* FETCH of the other request to h1, sent afterwards, carries it too.
C9_Witness ==
  /\ req[1].pc = "done"
  /\ IsSome(req[1].replayed)
  /\ Credential(req[1]) # {}
  /\ Pairs(Credential(req[1])) \subseteq req[1].sent[3].cookies
  /\ req[2].host = req[1].host
  /\ Len(req[2].sent) >= 1
  /\ req[2].sent[1].at >= req[1].sent[3].at
  /\ Pairs(Credential(req[1])) \subseteq req[2].sent[1].cookies

\* C10: a search never occupies the threads of the scheduler that serves
\* the requests: whatever number of requests are in their SOLVE step, a
\* request that is not solving finds a worker thread to run on.
C10_SearchOffScheduler ==
  (\E r \in Reqs : req[r].pc \in {"new", "fetch_wait", "fetch_body", "submit_wait",
                                  "submit_body", "replay_wait", "replay_body"})
    => Cardinality(Solving) < sched_threads

\* C11: solve_challenge maps the effective algorithm of the challenge to its
\* result: "preact" gives hash = hex(SHA-256(payload)) and no nonce,
\* "metarefresh" gives hash = the payload and no nonce, and every other
\* algorithm string ("fast", "slow", the empty string, unrecognised ones)
\* gives what the proof-of-work search returns, a result with a nonce; so a
\* nonce is present exactly when the result comes from the search.
C11_AlgorithmDispatch ==
  (call.fn = "solve_challenge") =>
    LET ch == call.args[1]
        alg == IF ch.rules.algorithm = "" THEN "fast" ELSE ch.rules.algorithm
        payload == ch.challenge.random_data
    IN  /\ (alg = "preact") =>
             /\ call.out.ok
             /\ call.out.val.hash = HexEncode(Sha256(payload))
             /\ call.out.val.nonce = None
        /\ (alg = "metarefresh") =>
             /\ call.out.ok
             /\ call.out.val.hash = payload
             /\ call.out.val.nonce = None
        /\ (alg \notin {"preact", "metarefresh"}) =>
             /\ call.out \in solve_challenge_native(ch, num_threads)
             /\ call.out.ok => IsSome(call.out.val.nonce)
        /\ call.out.ok =>
             (IsSome(call.out.val.nonce) <=> alg \notin {"preact", "metarefresh"})

\* C11 happens: a challenge whose algorithm the solver does not recognise
\* was handed to solve_challenge and came back with a nonce.
C11_Witness ==
  /\ call.fn = "solve_challenge"
  /\ call.args[1].rules.algorithm = "argon2id"
  /\ call.out.ok
  /\ IsSome(call.out.val.nonce)

\* The steps of a run that sent a request, in order.
SentSteps(sent) == [i \in 1..Len(sent) |-> sent[i].step]

\* Both orchestrators have ended their run on the same FETCH response.
BothEnded ==
  /\ req[1].pc = "done" /\ IsSome(req[1].ret)
  /\ cli.pc = "done"
  /\ cli.fetched = req[1].fetched

\* (i) a response without a challenge is a passthrough in both.
SamePassthrough ==
  (BothEnded /\ ~IsSome(req[1].parsed)) =>
    (Unwrap(cli.ret).ok <=> Unwrap(req[1].ret).ok)

\* (ii) a challenge whose algorithm is empty or unrecognised is solved by
\* proof of work and submitted in both.
SameDefaultAlgorithm ==
  (BothEnded /\ IsSome(req[1].parsed)
     /\ Unwrap(req[1].parsed).challenge.rules.algorithm
          \notin {"preact", "metarefresh", "fast", "slow"}) =>
    (IsSome(cli.submit_url) <=> IsSome(req[1].submit_url))

\* (iii) a submission that is not answered with 302 ends both runs alike.
SameNonRedirect ==
  (BothEnded /\ IsSome(req[1].submitted) /\ cli.submitted = req[1].submitted
     /\ Unwrap(req[1].submitted).status # 302) =>
    (Unwrap(cli.ret).ok <=> Unwrap(req[1].ret).ok)

\* (iv) a 302 is followed by a REPLAY of the original URL in both.
SameReplay ==
  (BothEnded /\ IsSome(req[1].submitted) /\ cli.submitted = req[1].submitted
     /\ Unwrap(req[1].submitted).status = 302) =>
    /\ SentSteps(cli.sent) = SentSteps(req[1].sent)
    /\ Last(cli.sent).url = Last(req[1].sent).url

\* C12: the command-line solver and the proxy implement the same state
\* machine: on the same target and the same upstream responses they take
\* the same steps, send the same requests and end with the same outcome;
\* in particular (i) a response without a challenge is a passthrough,
\* (ii) an empty or unrecognised algorithm is solved by proof of work and
\* submitted, (iii) a non-302 submission is handled the same way and (iv) a
\* 302 is followed by a REPLAY of the original URL.
C12_SameStateMachine ==
  /\ SamePassthrough
  /\ SameDefaultAlgorithm
  /\ SameNonRedirect
  /\ SameReplay
  /\ BothEnded =>
       /\ cli.steps = req[1].steps
       /\ SentSteps(cli.sent) = SentSteps(req[1].sent)
       /\ Unwrap(cli.ret).ok <=> Unwrap(req[1].ret).ok

\* The workers of a call have all left their loop through the overflow of
\* their next nonce.
AllOverflowed(c) == \A k \in ThreadIds : whist[c][k].exit = "overflow"

\* C13: the search returns the error "no solution" exactly when every worker
\* left its loop because its next nonce would overflow and the stop flag was
\* never set; it never returns the error once the flag is set; and a worker
\* that overflows returns no result and does not set the flag (the flag is
\* set only by the swap of a worker that holds a valid nonce).
C13_ExhaustionIsError ==
  \A c \in Calls :
    /\ IsSome(pow_ret[c]) =>
         /\ (~Unwrap(pow_ret[c]).ok) <=> (AllOverflowed(c) /\ ~found_solution[c])
         /\ (~Unwrap(pow_ret[c]).ok) =>
              Unwrap(pow_ret[c]).err = "Solver finished without finding a solution."
         /\ found_solution[c] => Unwrap(pow_ret[c]).ok
    /\ \A k \in Workers :
         (whist[c][k].exit = "overflow") =>
           /\ wret[c][k] = None
           /\ k \notin swap_won[c]
           /\ wnonce[c][k] < 0
           /\ wnonce[c][k] + num_threads >= 0
    /\ found_solution[c] =>
         \E k \in swap_won[c] : whist[c][k].exit \in {"none", "won"}

\* C13 happens: a call with several workers returned the error after every
\* worker ran its stride to the end of the u64 range.
C13_Witness ==
  /\ num_threads >= 2
  /\ IsSome(pow_ret[1])
  /\ ~Unwrap(pow_ret[1]).ok
  /\ AllOverflowed(1)
  /\ \A k \in ThreadIds : /\ whist[1][k].leapt
                           /\ Len(whist[1][k].attempts) >= 4
                           /\ Last(whist[1][k].attempts) + num_threads >= 0

\* The query parameters of a URL, in order: <<name, value>> pairs.
QueryParams(url) ==
  LET query == SubSeq(url, FirstIndex(url, 63) + 1, Len(url))
      pieces == SplitBytes(query, 38)
  IN  [i \in 1..Len(pieces) |->
         <<SubSeq(pieces[i], 1, FirstIndex(pieces[i], 61) - 1),
           SubSeq(pieces[i], FirstIndex(pieces[i], 61) + 1, Len(pieces[i]))>>]

\* The value of a hexadecimal digit.
HexValue(c) == IF c \in 48..57 THEN c - 48 ELSE IF c \in 65..70 THEN c - 55 ELSE c - 87

\* The bytes a percent-encoded text stands for.
RECURSIVE PercentDecode(_)
PercentDecode(s) ==
  IF s = <<>> THEN <<>>
  ELSE IF Head(s) = 37 /\ Len(s) >= 3
       THEN <<(16 * HexValue(s[2])) + HexValue(s[3])>> \o PercentDecode(SubSeq(s, 4, Len(s)))
  ELSE <<Head(s)>> \o PercentDecode(Tail(s))

\* A text is percent-encoded: letters, digits, - . _ ~ and %XX escapes only.
IsPercentEncoded(s) ==
  \A i \in 1..Len(s) :
    \/ s[i] \in (48..57) \cup (65..90) \cup (97..122) \cup {45, 46, 95, 126}
    \/ s[i] = 37 /\ i + 2 <= Len(s)

NameResult == <<114, 101, 115, 117, 108, 116>>
NameChallenge == <<99, 104, 97, 108, 108, 101, 110, 103, 101>>
NameResponse == <<114, 101, 115, 112, 111, 110, 115, 101>>
NameNonce == <<110, 111, 110, 99, 101>>
NameRedir == <<114, 101, 100, 105, 114>>
NameElapsedTime == <<101, 108, 97, 112, 115, 101, 100, 84, 105, 109, 101>>
NameId == <<105, 100>>

\* The parameter names the specification gives a submission for challenge ch.
SubmissionNames(ch) ==
  LET alg == IF ch.rules.algorithm = "" THEN "fast" ELSE ch.rules.algorithm
  IN  (IF alg = "preact" THEN <<NameResult, NameRedir, NameElapsedTime>>
       ELSE IF alg = "metarefresh" THEN <<NameChallenge, NameRedir, NameElapsedTime>>
       ELSE <<NameResponse, NameNonce, NameRedir, NameElapsedTime>>)
      \o (IF IsSome(ch.challenge.id) THEN <<NameId>> ELSE <<>>)

\* A submission URL for challenge ch and the original URL is as specified.
SubmissionAsSpecified(url, ch, original_url) ==
  LET params == QueryParams(url)
      value(name) == params[CHOOSE i \in 1..Len(params) : params[i][1] = name][2]
  IN  /\ [i \in 1..Len(params) |-> params[i][1]] = SubmissionNames(ch)
      /\ IsPercentEncoded(value(NameRedir))
      /\ PercentDecode(value(NameRedir)) = original_url
      /\ IsSome(ch.challenge.id) => value(NameId) = Utf8(Unwrap(ch.challenge.id))

\* The submission URLs the proxy sends are as specified.
ProxySubmissionsAsSpecified ==
  \A r \in Reqs :
    IsSome(req[r].submit_url) =>
      SubmissionAsSpecified(Unwrap(req[r].submit_url),
                            Unwrap(req[r].parsed).challenge, Unwrap(req[r].url))

\* The submission URL the command-line solver sends is as specified.
CliSubmissionAsSpecified ==
  IsSome(cli.submit_url) =>
    SubmissionAsSpecified(Unwrap(cli.submit_url), Unwrap(cli.challenge),
                          Unwrap(cli.url))

\* C14: every submission URL the program sends names its parameters by the
\* effective algorithm ("result" for preact, "challenge" for metarefresh,
\* "response" and "nonce" for proof of work), carries the original URL
\* percent-encoded in redir, and has the parameter id=<id>, the id unchanged,
\* exactly when the challenge carried an id.
C14_SubmissionUrl ==
  /\ ProxySubmissionsAsSpecified
  /\ CliSubmissionAsSpecified

\* The run of a request ended in failure: proxy_request returned an error
\* (transport failure, solver exhaustion), the submission was not answered
\* with 302, or the challenge of the fetched page did not decode.
RunFailed(rec) ==
  /\ rec.pc = "done"
  /\ IsSome(rec.ret)
  /\ \/ ~Unwrap(rec.ret).ok
     \/ IsSome(rec.submitted) /\ Unwrap(rec.submitted).status # 302
     \/ IsSome(rec.fetched) /\ DecodeFails(Unwrap(rec.fetched).body)

\* The cookies the upstream has set in the responses of a run, as
\* <<name, value>> pairs.
ReceivedCookies(rec) ==
  UNION {{<<Cookie_parse(Utf8(v)).val.name, Cookie_parse(Utf8(v)).val.value>> :
            v \in {SetCookies(Unwrap(got).headers)[i] :
                     i \in {j \in 1..Len(SetCookies(Unwrap(got).headers)) :
                              Cookie_parse(Utf8(SetCookies(Unwrap(got).headers)[j])).ok}}} :
           got \in {g \in {rec.fetched, rec.submitted, rec.replayed} : IsSome(g)}}

\* C15: when a run ends in failure, the only state that outlives it is the
\* registry entry of its host, and the cookie store of that entry is empty:
\* no cookie received during the failed run remains stored.
C15_FailureLeavesNoCookie ==
  \A r \in Reqs :
    RunFailed(req[r]) =>
      /\ \A c \in jar_cookies[req[r].jar] :
           <<c.name, c.value>> \notin ReceivedCookies(req[r])
      /\ (\A q \in Reqs \ {r} : req[q].pc = "new") => jar_cookies[req[r].jar] = {}

\* The members of a challenge object the decoder knows.
KnownMembers(members) ==
  SelectSeq(members, LAMBDA m : m[1] \in {"id", "randomData"})

\* The string value of the last member named key, if there is one.
LastString(members, key) ==
  LET at == {i \in 1..Len(members) : members[i][1] = key}
  IN  IF at = {} THEN None
      ELSE Some(members[CHOOSE i \in at : \A j \in at : j <= i][2].v)

\* Every member named randomData holds a string.
StringRandomData(members) ==
  \A i \in 1..Len(members) :
    (members[i][1] = "randomData") => members[i][2].t = "string"

\* The texts of a JSON document with one challenge: an object with exactly
\* one member named challenge, or a sequence, whose first element it is.
HasChallenge(text) ==
  /\ text.kind = "json"
  /\ \/ /\ text.doc.t = "object"
        /\ Cardinality({i \in 1..Len(text.doc.members) :
                          text.doc.members[i][1] = "challenge"}) = 1
     \/ /\ text.doc.t = "array"
        /\ text.doc.items # <<>>

\* The challenge of the document.
ChallengeOf(doc) ==
  IF doc.t = "array" THEN doc.items[1]
  ELSE doc.members[CHOOSE i \in 1..Len(doc.members) :
                     doc.members[i][1] = "challenge"][2]

\* The document with another value for its challenge.
WithChallenge(doc, value) ==
  IF doc.t = "array"
  THEN TextJson(JsonArray([i \in 1..Len(doc.items) |->
                             IF i = 1 THEN value ELSE doc.items[i]]))
  ELSE TextJson(JsonObject([i \in 1..Len(doc.members) |->
                              IF doc.members[i][1] = "challenge"
                              THEN <<"challenge", value>>
                              ELSE doc.members[i]]))

\* C16: the decoder gives both wire shapes of a challenge one representation:
\* the bare string s and an object with randomData s decode to the same
\* payload s with the same rules, and differ only in the id, which the
\* object form carries and the string form does not have; an object without
\* randomData is a decode failure; members of the object the decoder does
\* not know are ignored.
C16_WireShapes ==
  (call.fn = "from_str" /\ HasChallenge(call.args[1])) =>
    LET doc == call.args[1].doc
        cj == ChallengeOf(doc)
        as_string(s) == from_str_AnubisChallenge(WithChallenge(doc, ChalString(s)))
        known == from_str_AnubisChallenge(
                   WithChallenge(doc, ChalMembers(KnownMembers(cj.members))))
    IN  /\ (cj.t = "string" /\ call.out.ok) =>
             call.out.val.challenge = [id |-> None, random_data |-> cj.v]
        /\ (cj.t = "object" /\ StringRandomData(cj.members)) =>
             /\ ~IsSome(LastString(cj.members, "randomData")) => ~call.out.ok
             /\ IsSome(LastString(cj.members, "randomData")) =>
                  LET s == Unwrap(LastString(cj.members, "randomData"))
                  IN  /\ call.out.ok <=> as_string(s).ok
                      /\ call.out.ok =>
                           /\ call.out.val.challenge.random_data = s
                           /\ call.out.val.challenge.id = LastString(cj.members, "id")
                           /\ as_string(s).val.challenge.random_data = s
                           /\ as_string(s).val.challenge.id = None
                           /\ as_string(s).val.rules = call.out.val.rules
        /\ (cj.t = "object") => call.out = known

\* C17: parse_challenge_from_html answers "no challenge" with a value, not
\* with an error, when the body lacks the marker, when the marker is there
\* but the payload element is not, and when the text of the element is empty
\* or the literal null; and a version element that is missing or does not
\* decode never makes the extraction fail: the version is then "unknown".
C17_NoChallengeIsValue ==
  (call.fn = "parse_challenge_from_html") =>
    LET html == call.args[1]
        absent == \/ ~html.marker
                  \/ ~IsSome(html.elem)
                  \/ Unwrap(html.elem).kind = "empty"
                  \/ IsNullText(Unwrap(html.elem))
        version_ok == IsSome(html.version) /\ Unwrap(html.version).kind = "string"
    IN  /\ absent => call.out = None
        /\ (~absent /\ ~DecodeFails(html)) =>
             /\ IsSome(call.out)
             /\ Unwrap(call.out).challenge
                  = from_str_AnubisChallenge(Unwrap(html.elem)).val
             /\ version_ok => Unwrap(call.out).version = Unwrap(html.version).s
             /\ ~version_ok => Unwrap(call.out).version = "unknown"

\* C17 happens: a page with a challenge that decodes and a version element
\* that does not was parsed, and the challenge came back.
C17_Witness ==
  /\ call.fn = "parse_challenge_from_html"
  /\ call.args[1].version = VersionGarbage
  /\ IsSome(call.out)
  /\ Unwrap(call.out).version = "unknown"

\* C18: every worker reads the stop flag before each hash attempt, so once
\* the flag is set a worker makes at most one more hash attempt (the one it
\* had decided on when the flag was set) and ends without a result; a worker
\* that starts only after the flag is set makes no hash attempt at all.
C18_StopAfterFlag ==
  \A c \in Calls : \A k \in Workers :
    /\ whist[c][k].late <= 1
    /\ (whist[c][k].late = 1) => (k \notin swap_won[c] /\ wret[c][k] = None)
    /\ whist[c][k].started_late =>
         (whist[c][k].attempts = <<>> /\ wret[c][k] = None)
    /\ whist[c][k].loads =
         Len(whist[c][k].attempts)
           + (IF wpc[c][k] = "hash" \/ whist[c][k].exit = "flag" THEN 1 ELSE 0)
    /\ (whist[c][k].exit = "flag") => found_solution[c]

\* The caller of a search is at its match on the result of find_any: every
\* item of the parallel iterator has finished.
CallerReads(c) ==
  /\ IsSome(pow_ch[c])
  /\ \A k \in ThreadIds : wpc[c][k] = "done"

\* C19: when the caller reads the winning-nonce slot with the stop flag set
\* (the recompute path), the slot holds the nonce of the worker that won the
\* swap, never the initial 0 of a slot not yet written; the result the
\* recompute path builds from it has a nonce that satisfies the difficulty
\* predicate and the hash of payload || decimal(nonce); and the stop flag is
\* never set while find_any has handed the caller no result.
C19_RecomputeReadsWinner ==
  \A c \in Calls :
    (CallerReads(c) /\ found_solution[c]) =>
      LET ch == Unwrap(pow_ch[c])
          recomputed == NativeResult(ch, result_nonce[c])
          digest == PowDigest(ch.challenge.random_data, result_nonce[c])
      IN  /\ slot_writes[c] = 1
          /\ \E k \in swap_won[c] :
               /\ whist[c][k].exit = "won"
               /\ result_nonce[c] = Last(whist[c][k].attempts)
          /\ LeadingZeroNibbles(digest, ch.rules.difficulty)
          /\ recomputed.nonce = Some(result_nonce[c])
          /\ recomputed.hash = HexEncode(digest)
          /\ IsSome(found_any[c]) /\ Unwrap(found_any[c]) = recomputed

\* C19 happens: with several workers the flag is set, every item has
\* finished, and the slot the caller reads holds a nonce that is not 0.
C19_Witness ==
  /\ num_threads >= 2
  /\ CallerReads(1)
  /\ found_solution[1]
  /\ result_nonce[1] # 0
  /\ \E k \in ThreadIds : whist[1][k].exit = "lost"

\* The nonces a worker has hashed, as a set.
Attempted(c, k) == {whist[c][k].attempts[i] : i \in 1..Len(whist[c][k].attempts)}

\* The order of u64 values: the values of the high half follow those of the
\* low half.
U64Less(a, b) == IF (a >= 0) = (b >= 0) THEN a < b ELSE a >= 0

\* The nonces of the two windows on the stride of worker k.
WindowStride(k, w) == {n \in LowNonces \cup HighNonces : U64Mod(n, w) = k}

\* C20: with W workers, the i-th nonce worker k hashes is k + (i-1)*W
\* whatever the schedule: strictly increasing, inside the nonce range (no
\* wrap-around); a worker that ran to the end hashed every nonce of the range
\* congruent to k modulo W; no nonce is hashed by two workers; and when the
\* search ends without a solution the workers together hashed every nonce of
\* the range.  Of the range, the model follows the two windows: the attempts
\* of a worker are consecutive nonces of its stride except where it leaves
\* the low window.
C20_StaticPartition ==
  \A c \in Calls :
    /\ \A k \in Workers :
         LET a == whist[c][k].attempts
         IN  /\ \A i \in 1..Len(a) :
                  /\ a[i] \in LowNonces => a[i] = k + (i - 1) * num_threads
                  /\ U64Mod(a[i], num_threads) = k
             /\ \A i \in 1..(Len(a) - 1) :
                  \/ a[i + 1] = a[i] + num_threads
                  \/ a[i] + num_threads > NonceMax /\ ~InWindow(a[i] + num_threads)
             /\ \A i, j \in 1..Len(a) : (i < j) => U64Less(a[i], a[j])
             /\ (k \notin ThreadIds) => (a = <<>>)
             /\ (whist[c][k].exit = "overflow") =>
                  WindowStride(k, num_threads) \subseteq Attempted(c, k)
    /\ \A k1, k2 \in Workers :
         (k1 # k2) => (Attempted(c, k1) \cap Attempted(c, k2) = {})
    /\ (IsSome(pow_ret[c]) /\ ~Unwrap(pow_ret[c]).ok) =>
         (LowNonces \cup HighNonces) \subseteq
           UNION {Attempted(c, k) : k \in ThreadIds}

\* C20 happens: a search with the largest number of workers ended without a
\* solution, and the last worker hashed its whole stride, up to the last
\* nonce before the overflow.
C20_Witness ==
  /\ num_threads = MaxWorkers
  /\ num_threads >= 2
  /\ IsSome(pow_ret[1])
  /\ ~Unwrap(pow_ret[1]).ok
  /\ WindowStride(num_threads - 1, num_threads) \subseteq
       Attempted(1, num_threads - 1)
  /\ \E n \in Attempted(1, num_threads - 1) : n < 0 /\ n + num_threads >= 0
  /\ Cardinality(Attempted(1, 0)) + Cardinality(Attempted(1, num_threads - 1)) >= 4

\* The nonces a worker has passed to the progress callback, as a set.
Reported(c, k) == {whist[c][k].callbacks[j] : j \in 1..Len(whist[c][k].callbacks)}

\* The callback gets only nonces the worker has just hashed, in the order of
\* the attempts, and a call without a callback reports nothing.
CallbackPassesAttempt ==
  \A c \in Calls : \A k \in Workers :
    LET cb == whist[c][k].callbacks
    IN  /\ Reported(c, k) \subseteq Attempted(c, k)
        /\ \A i, j \in 1..Len(cb) : (i < j) => (cb[i] < cb[j])
        /\ ~progress_callback[c] => (cb = <<>>)

\* The callback is never invoked for an attempt that satisfied the difficulty.
CallbackNotForWinner ==
  \A c \in Calls : \A k \in Workers :
    \A n \in Reported(c, k) :
      ~LeadingZeroNibbles(PowDigest(Unwrap(pow_ch[c]).challenge.random_data, n),
                          Unwrap(pow_ch[c]).rules.difficulty)

\* The number of hash attempts of a worker from the attempt of nonce n to
\* the attempt of nonce m: every attempt advances the nonce by num_threads.
AttemptsBetween(n, m) == (m - n) \div num_threads

\* With a callback, a worker makes ProgressPeriod hash attempts from one
\* invocation to the next, whatever k and W.
CallbackEveryPeriod ==
  \A c \in Calls : \A k \in Workers :
    LET cb == whist[c][k].callbacks
    IN  \A i \in 1..(Len(cb) - 1) :
          AttemptsBetween(cb[i], cb[i + 1]) = ProgressPeriod

\* C21: when a progress callback is supplied, each worker invokes it once
\* every 16384 of its own hash attempts, passing the nonce it has just
\* attempted, with the same cadence for every worker index and every number
\* of workers, and never for the attempt that won.
C21_ProgressCadence ==
  /\ CallbackPassesAttempt
  /\ CallbackNotForWinner
  /\ CallbackEveryPeriod

\* The result of a search that has returned is Ok exactly when some nonce
\* satisfies the difficulty, and the error "no solution" otherwise, as for
\* every difficulty above 64; and no worker hashes a nonce twice.
SearchResultDecided ==
  \A c \in Calls :
    /\ IsSome(pow_ret[c]) =>
         LET ch == Unwrap(pow_ch[c])
             ret == Unwrap(pow_ret[c])
         IN  /\ ret.ok <=> (AllValidNonces(ch) # {})
             /\ ~ret.ok => ret.err = "Solver finished without finding a solution."
             /\ Unsatisfiable(ch.rules.difficulty) => ~ret.ok
    /\ \A k \in Workers :
         \A i, j \in 1..Len(whist[c][k].attempts) :
           (i < j) => U64Less(whist[c][k].attempts[i], whist[c][k].attempts[j])

\* A worker of a search that no hash can end stands before an iteration that
\* invokes the progress callback, having invoked it MaxReports times: its
\* iterations from here on are not followed.  No worker of a call without a
\* callback ever does.
NotFollowed(c) ==
  \E k \in ThreadIds :
    /\ wpc[c][k] = "load"
    /\ Reports(c, k)
    /\ ~Followed(c, k)
    /\ Unsatisfiable(Unwrap(pow_ch[c]).rules.difficulty)

\* C22: over the bounded nonce range (u64) and under fair scheduling of the
\* workers, every search that has begun returns; it returns Ok if some nonce
\* of the range satisfies the difficulty and the error "no solution"
\* otherwise, in particular for every difficulty above 64.  A search with a
\* progress callback at such a difficulty is followed until a worker has
\* invoked the callback MaxReports times.
C22_SearchTerminates ==
  /\ []SearchResultDecided
  /\ IsSome(pow_ch[1]) ~> (IsSome(pow_ret[1]) \/ NotFollowed(1))

\* C22 happens: a search at a difficulty above 64 with several workers has
\* returned the error after every worker ran its stride to the overflow.
C22_Witness ==
  /\ num_threads >= 2
  /\ IsSome(pow_ret[1])
  /\ ~Unwrap(pow_ret[1]).ok
  /\ Unsatisfiable(Unwrap(pow_ch[1]).rules.difficulty)
  /\ \A k \in ThreadIds : /\ whist[1][k].exit = "overflow"
                           /\ wnonce[1][k] < 0
                           /\ wnonce[1][k] + num_threads >= 0

\* The wait of the specification for a challenge: difficulty x 80 ms for
\* preact, difficulty x 800 ms for metarefresh, none otherwise.
SpecifiedWait(ch) ==
  IF ch.rules.algorithm = "preact" THEN Some(MulLimbs(ch.rules.difficulty, 80))
  ELSE IF ch.rules.algorithm = "metarefresh"
       THEN Some(MulLimbs(ch.rules.difficulty, 800))
  ELSE None

\* The Option of a u64 of milliseconds is the Option of a product in full.
SameWait(got, specified) ==
  IF IsSome(got) /\ IsSome(specified)
  THEN Unwrap(specified) = Unwrap(got) \o <<0>>
  ELSE got = specified

\* min_wait is exact on the challenges whose product fits in 64 bits.
MinWaitExactWhenItFits ==
  (call.fn = "min_wait" /\ IsSome(SpecifiedWait(call.args[1]))
                        /\ Unwrap(SpecifiedWait(call.args[1]))[5] = 0) =>
    (~call.out.panicked /\ SameWait(call.out.val, SpecifiedWait(call.args[1])))

\* min_wait is none for every algorithm other than preact and metarefresh.
MinWaitNoneForProofOfWork ==
  (call.fn = "min_wait" /\ call.args[1].rules.algorithm \notin {"preact", "metarefresh"}) =>
    (~call.out.panicked /\ call.out.val = None)

\* C23: min_wait is total and exact: for every challenge and every
\* difficulty d of the difficulty field it returns, without failing, exactly
\* d x 80 ms for preact, d x 800 ms for metarefresh and none for every other
\* algorithm; the product never wraps around into a shorter wait.
C23_MinWaitExact ==
  (call.fn = "min_wait") =>
    /\ ~call.out.panicked
    /\ SameWait(call.out.val, SpecifiedWait(call.args[1]))

\* The nonce of the result of a call that returned Ok.
ReturnedNonce(c) == Unwrap(Unwrap(pow_ret[c]).val.nonce)

\* C24: the nonce n the search returns is the first valid nonce of the
\* stride of the winning worker: with W workers no nonce below n that is
\* congruent to n modulo W satisfies the difficulty; with one worker n is the
\* least valid nonce of the range; at difficulty 0 n is the start index of a
\* worker (n < W), which is 0 when W = 1.
C24_FirstOfStride ==
  \A c \in Calls :
    (IsSome(pow_ret[c]) /\ Unwrap(pow_ret[c]).ok) =>
      LET ch == Unwrap(pow_ch[c])
          n == ReturnedNonce(c)
      IN  /\ n \in AllValidNonces(ch)
          /\ \A m \in 0..(n - 1) :
               (m % num_threads = n % num_threads) => m \notin AllValidNonces(ch)
          /\ (num_threads = 1) => \A m \in AllValidNonces(ch) : n <= m
          /\ (ch.rules.difficulty = U64(0)) =>
               (n < num_threads /\ (num_threads = 1 => n = 0))

\* C24 happens: with several workers the search returned a nonce that its
\* worker reached after a failed attempt, while a smaller valid nonce lies in
\* the stride of another worker.
C24_Witness ==
  /\ num_threads >= 2
  /\ IsSome(pow_ret[1]) /\ Unwrap(pow_ret[1]).ok
  /\ ReturnedNonce(1) >= num_threads
  /\ \E m \in AllValidNonces(Unwrap(pow_ch[1])) :
       m < ReturnedNonce(1) /\ (m % num_threads) # (ReturnedNonce(1) % num_threads)

\* The names of the query parameters of a URL.
ParamNames(url) == {QueryParams(url)[i][1] : i \in 1..Len(QueryParams(url))}

\* The value of the query parameter of a URL with the given name.
ParamValue(url, name) ==
  QueryParams(url)[CHOOSE i \in 1..Len(QueryParams(url)) :
                     QueryParams(url)[i][1] = name][2]

\* A submission URL was built for the challenge that solve_challenge solved.
BuiltForSolved ==
  call.fn = "build_submission_url" /\ call.args[1] = call.args[3]

\* C25: for every algorithm string, when the submission URL is built from
\* the result solve_challenge gave for the same challenge, the result
\* carries a nonce if and only if min_wait is none if and only if the URL
\* uses the parameters response and nonce; the nonce parameter then is the
\* nonce of the result, never the 0 that stands in for an absent nonce.
C25_ClassifiersAgree ==
  BuiltForSolved =>
    LET ch == call.args[1]
        result == call.args[2]
        names == ParamNames(call.out)
        uses_nonce == {NameResponse, NameNonce} \subseteq names
    IN  /\ IsSome(result.nonce) <=> (min_wait(ch) = None)
        /\ (min_wait(ch) = None) <=> uses_nonce
        /\ uses_nonce \/ ({NameResponse, NameNonce} \cap names = {})
        /\ uses_nonce =>
             /\ IsSome(result.nonce)
             /\ ParamValue(call.out, NameNonce) = Itoa(Unwrap(result.nonce))
             /\ DecimalAt(ParamValue(call.out, NameNonce), 1, 0) = Unwrap(result.nonce)

\* C25 happens: a challenge with an empty algorithm string was solved by
\* the search and its URL carries the nonce of the result, which is not 0.
C25_Witness ==
  /\ BuiltForSolved
  /\ call.args[1].rules.algorithm = ""
  /\ IsSome(call.args[2].nonce)
  /\ Unwrap(call.args[2].nonce) # 0
  /\ NameNonce \in ParamNames(call.out)

\* C26: searches that run at the same time are independent: a worker stops
\* on the flag only when the flag of its own call is set, the flag of a call
\* is set only by a worker of that call that holds a nonce valid for the
\* call's challenge, the slot of a call holds only such a nonce, and each
\* call returns Ok exactly when its own range holds a valid nonce, with a
\* nonce valid for its own payload and difficulty and the digest of its own
\* payload.
C26_IndependentSearches ==
  \A c \in Calls :
    /\ \A k \in Workers :
         /\ (whist[c][k].exit = "flag") => found_solution[c]
         /\ whist[c][k].started_late => found_solution[c]
    /\ found_solution[c] =>
         \E k \in swap_won[c] :
           /\ k \in ThreadIds
           /\ Last(whist[c][k].attempts) \in AllValidNonces(Unwrap(pow_ch[c]))
    /\ (slot_writes[c] > 0) => result_nonce[c] \in AllValidNonces(Unwrap(pow_ch[c]))
    /\ IsSome(pow_ret[c]) =>
         LET ch == Unwrap(pow_ch[c])
             ret == Unwrap(pow_ret[c])
         IN  /\ ret.ok <=> (AllValidNonces(ch) # {})
             /\ ret.ok =>
                  /\ Unwrap(ret.val.nonce) \in AllValidNonces(ch)
                  /\ ret.val.hash =
                       HexEncode(PowDigest(ch.challenge.random_data,
                                           Unwrap(ret.val.nonce)))
                  /\ ret.val.data = ch.challenge.random_data
                  /\ ret.val.difficulty = ch.rules.difficulty

\* C26 happens: two searches with different challenges shared the pool;
\* a worker of call 2 read its flag at least twice while the flag of call 1
\* was set and went on to the end of its stride; call 1 returned its nonce
\* and call 2 the error.
C26_Witness ==
  /\ IsSome(pow_ret[1]) /\ Unwrap(pow_ret[1]).ok
  /\ IsSome(pow_ret[2]) /\ ~Unwrap(pow_ret[2]).ok
  /\ pow_ch[1] # pow_ch[2]
  /\ \E k \in ThreadIds :
       /\ whist[2][k].foreign >= 2
       /\ whist[2][k].exit = "overflow"
  /\ \E k \in ThreadIds : whist[1][k].foreign = 0 /\ whist[1][k].attempts # <<>>
====
